---- MODULE Spec2Model ----
(***************************************************************************)
(* Query pipeline of community-search-api: QueryProcessor.process_query   *)
(* (trial_text2sql.py) over Text2SQLEngine, QueryNormalizer               *)
(* (fuzzy_matching.py) and the connection pool (db_config.py).            *)
(*                                                                         *)
(* Text is a sequence of one-character strings, so that strip, replace,   *)
(* upper and len are computed the way str computes them.                   *)
(***************************************************************************)
EXTENDS Integers, Sequences, FiniteSets, TLC

\* ------------------------------------------------------------------------
\* Bounds of the model
\* ------------------------------------------------------------------------
MaxRequests == 1
MaxMs == 1
PoolThreads == 2
MaxFill == 11

\* ------------------------------------------------------------------------
\* Program constants
\* ------------------------------------------------------------------------
MAX_RETRIES == 3
MIN_SQL_LEN == 10
MAXCONN == 20

NULL == "null"

\* Optional[str] / Optional[List]: None or a value
None == [isNone |-> TRUE, val |-> <<>>]
Some(v) == [isNone |-> FALSE, val |-> v]

\* ------------------------------------------------------------------------
\* str operations used by generate_sql
\* ------------------------------------------------------------------------
IsSpace(c) == c \in {" ", "\n", "\t"}

RECURSIVE LStrip(_)
LStrip(s) ==
    IF s = <<>> THEN <<>>
    ELSE IF IsSpace(Head(s)) THEN LStrip(Tail(s)) ELSE s

RECURSIVE RStrip(_)
RStrip(s) ==
    IF s = <<>> THEN <<>>
    ELSE IF IsSpace(s[Len(s)]) THEN RStrip(SubSeq(s, 1, Len(s) - 1)) ELSE s

Strip(s) == RStrip(LStrip(s))

\* str.replace(pat, ""): leftmost non-overlapping occurrences are removed
RECURSIVE Remove(_, _)
Remove(s, pat) ==
    IF Len(s) < Len(pat) THEN s
    ELSE IF SubSeq(s, 1, Len(pat)) = pat
         THEN Remove(SubSeq(s, Len(pat) + 1, Len(s)), pat)
         ELSE <<Head(s)>> \o Remove(Tail(s), pat)

UpperChar(c) ==
    CASE c = "s" -> "S" [] c = "e" -> "E" [] c = "l" -> "L"
      [] c = "c" -> "C" [] c = "t" -> "T" [] c = "a" -> "A"
      [] c = "b" -> "B" [] c = "q" -> "Q" [] c = "u" -> "U"
      [] c = "p" -> "P" [] c = "d" -> "D"
      [] OTHER -> c

Upper(s) == [i \in 1..Len(s) |-> UpperChar(s[i])]

Contains(s, pat) ==
    \E i \in 1..(Len(s) - Len(pat) + 1) : SubSeq(s, i, i + Len(pat) - 1) = pat

\* the backquote character (a string literal cannot hold it)
BQ == "BQ"
FENCE_SQL == <<BQ, BQ, BQ, "s", "q", "l">>
FENCE == <<BQ, BQ, BQ>>
SELECT == <<"S", "E", "L", "E", "C", "T">>

\* sql = response.text.strip(); sql.replace("```sql","").replace("```","").strip()
CleanSql(raw) == Strip(Remove(Remove(Strip(raw), FENCE_SQL), FENCE))

ShapeOk_NoLength(sql) ==
    /\ sql # <<>>
    /\ Contains(Upper(sql), SELECT)

\* not (not sql or len(sql) < 10) and "SELECT" in sql.upper()
ShapeOk(sql) ==
    /\ sql # <<>>
    /\ Len(sql) >= MIN_SQL_LEN
    /\ Contains(Upper(sql), SELECT)

\* ------------------------------------------------------------------------
\* Texts the generation capability may answer with
\* ------------------------------------------------------------------------
\* "SELECT a,b"  (exactly 10 characters)
T_PLAIN == <<"S","E","L","E","C","T"," ","a",",","b">>
\* "select a,b"
T_LOWER == <<"s","e","l","e","c","t"," ","a",",","b">>
\* "```sql\nSELECT a,b\n```"
T_FENCED == FENCE_SQL \o <<"\n">> \o T_PLAIN \o <<"\n">> \o FENCE
\* "SEL```ECT a,b": SELECT appears only once the fence is removed
T_SPLIT == <<"S","E","L">> \o FENCE \o <<"E","C","T"," ","a",",","b">>
\* "SELECT a,"  (9 characters)
T_SHORT == <<"S","E","L","E","C","T"," ","a",",">>
\* "```SELECT a,```": 15 characters raw, 9 once cleaned
T_SHORT_FENCED == FENCE \o T_SHORT \o FENCE
\* "UPDATE t SET"
T_NOSELECT == <<"U","P","D","A","T","E"," ","t"," ","S","E","T">>
T_EMPTY == <<>>
\* " \n "
T_BLANK == <<" ", "\n", " ">>

GenTexts == {T_PLAIN, T_LOWER, T_FENCED, T_SPLIT, T_SHORT, T_SHORT_FENCED,
             T_NOSELECT, T_EMPTY, T_BLANK}

\* one outcome of self.model.generate_content(prompt) / response.text
GenOutcomes ==
    {[kind |-> "raise", text |-> <<>>]} \cup
    {[kind |-> "text", text |-> t] : t \in GenTexts}


\* ------------------------------------------------------------------------
\* Entities (fuzzy_matching.py), as process_query sees them
\* ------------------------------------------------------------------------
CategoryOrder == <<"companies", "roles", "cities", "states", "countries",
                   "institutes", "degrees", "domains">>
Categories == {CategoryOrder[i] : i \in 1..Len(CategoryOrder)}
EntityKeys == Categories \cup {"years"}

\* a few rows of the abbreviation table
INSTITUTE_ABBREVIATIONS ==
    [k \in {"iit b", "mit"} |->
        IF k = "iit b" THEN "Indian Institute of Technology, Bombay"
        ELSE "Massachusetts Institute of Technology"]

\* str.lower() on the names the queries below mention
LowerName(e) ==
    CASE e = "Stripe" -> "stripe"
      [] e = "Bangalore" -> "bangalore"
      [] OTHER -> e

NoVocab == [c \in Categories |-> {}]

\* A query is its text together with what a scan of that text finds:
\* literal[c] = the values of category c in the store that occur in the text,
\* abbrevs = the abbreviation keys that occur in it, years = its year tokens.
Q_FOUNDER == [text |-> "Who is a founder?",
              literal |-> NoVocab, abbrevs |-> {}, years |-> <<>>]
Q_IIT == [text |-> "Who studied at IIT B?",
          literal |-> NoVocab, abbrevs |-> {"iit b"}, years |-> <<>>]
Q_STRIPE == [text |-> "Who worked at Stripe in Bangalore in 2015?",
             literal |-> [NoVocab EXCEPT !["companies"] = {"Stripe"},
                                         !["cities"] = {"Bangalore"}],
             abbrevs |-> {}, years |-> <<2015>>]
Queries == {Q_FOUNDER, Q_IIT, Q_STRIPE}

EmptyDict == [k \in {} |-> {}]
NoEntities == [k \in EntityKeys |-> IF k = "years" THEN <<>> ELSE {}]

\* ------------------------------------------------------------------------
\* The connection pool (db_config.py), seen from one request at a time:
\* n connections are checked out and were never returned
\* ------------------------------------------------------------------------
\* outcomes of a stage that touches the store:
\*   "noconn" get_db_connection() raised, "fail" a statement raised after
\*   the connection was taken, "ok" nothing raised
StoreOutcomes(n) ==
    IF n < MAXCONN THEN {"ok", "fail", "noconn"} ELSE {"noconn"}

\* Connections still checked out when the stage returns.  Every handler
\* calls close_db_connection(conn) on its straight-line path only; its
\* except branch returns without it.
HeldAfter(n, o) == IF o = "fail" THEN n + 1 ELSE n

GetDbContext_Partial(q, o) == IF o = "noconn" THEN NoVocab ELSE q.literal
\* EntityExtractor._get_db_context: the vocabulary, or {} on any exception
GetDbContext(q, o) == IF o = "ok" THEN q.literal ELSE NoVocab

\* EntityExtractor.extract_entities
ExtractEntities(q, ctx) ==
    [k \in EntityKeys |->
        IF k = "years" THEN q.years
        ELSE ctx[k] \cup (IF k = "institutes" THEN q.abbrevs ELSE {})]

Populated(ext, k) == IF k = "years" THEN ext[k] # <<>> ELSE ext[k] # {}

\* FuzzyMatcher.match_entity against the values read for the category: a
\* value of the vocabulary matches itself (score 100)
MatchEntity(e, vals) ==
    IF e = "" \/ vals = {} THEN <<>>
    ELSE IF \E v \in vals : LowerName(v) = LowerName(e) THEN <<e>> ELSE <<>>

\* candidate list of one input: normalize_institutes for institutes,
\* normalize_companies .. normalize_degrees for the rest
Candidates(k, e, vals) ==
    IF k = "institutes"
    THEN IF LowerName(e) \in DOMAIN INSTITUTE_ABBREVIATIONS
         THEN <<INSTITUTE_ABBREVIATIONS[LowerName(e)]>>
         ELSE IF MatchEntity(e, vals) = <<>> THEN <<>> ELSE <<e>>
    ELSE IF MatchEntity(e, vals) = <<>> THEN <<>>
         ELSE <<e>> \o MatchEntity(e, vals)

NormalizeCategory(k, inputs, vals) ==
    [e \in {x \in inputs : Candidates(k, x, vals) # <<>>} |->
        Candidates(k, e, vals)]

RECURSIVE YearMap(_)
YearMap(ys) ==
    IF ys = <<>> THEN EmptyDict
    ELSE ToString(Head(ys)) :> <<ToString(Head(ys))>> @@ YearMap(Tail(ys))

\* FuzzyMatcher.normalize_all; outs[k] is the outcome of the vocabulary
\* read that normalize_<k> makes
NormalizeAll(q, ext, outs) ==
    [k \in {x \in EntityKeys : Populated(ext, x)} |->
        IF k = "years" THEN YearMap(ext[k])
        ELSE NormalizeCategory(k, ext[k], GetDbContext(q, outs[k])[k])]

\* entity_type.title() for the names _build_hints goes through
Title(k) ==
    CASE k = "companies" -> "Companies"
      [] k = "roles" -> "Roles"
      [] k = "cities" -> "Cities"
      [] k = "states" -> "States"
      [] k = "countries" -> "Countries"
      [] k = "institutes" -> "Institutes"
      [] k = "degrees" -> "Degrees"
      [] k = "domains" -> "Domains"
      [] OTHER -> k

\* the orders in which a dict with the keys S may be iterated
Orderings(S) ==
    {f \in [1..Cardinality(S) -> S] :
        \A i \in DOMAIN f : \A j \in DOMAIN f : i # j => f[i] # f[j]}

\* one hint: "<Type>: <original> -> <match>, <match>, ..."
Hint(k, original, matches) ==
    [title |-> Title(k), original |-> original, matches |-> matches]

NO_ENTITIES_FOUND == <<[text |-> "No entities found"]>>

\* entity_types of _build_hints
HintTypes == CategoryOrder

\* the hints list after entity_types[i..] were gone through, for each
\* iteration order of the dicts
RECURSIVE HintsFrom(_, _)
HintsFrom(i, norm) ==
    IF i > Len(HintTypes) THEN {<<>>}
    ELSE LET k == HintTypes[i] IN
         IF k \in DOMAIN norm /\ DOMAIN norm[k] # {}
         THEN {[j \in DOMAIN f |-> Hint(k, f[j], norm[k][f[j]])] \o rest :
                  f \in Orderings(DOMAIN norm[k]), rest \in HintsFrom(i + 1, norm)}
         ELSE HintsFrom(i + 1, norm)

\* QueryNormalizer._build_hints: " | ".join(hints) is kept as the sequence
\* of its segments
BuildHints(norm) ==
    {IF h = <<>> THEN NO_ENTITIES_FOUND ELSE h : h \in HintsFrom(1, norm)}

\* the reads of normalize_all happen in CategoryOrder; walk them against
\* the pool: i = next position, n = connections held
RECURSIVE PoolWalk(_, _, _, _)
PoolWalk(i, n, ext, outs) ==
    IF i > Len(CategoryOrder) THEN [feasible |-> TRUE, held |-> n]
    ELSE LET k == CategoryOrder[i] IN
         IF ~Populated(ext, k) THEN PoolWalk(i + 1, n, ext, outs)
         ELSE IF outs[k] \notin StoreOutcomes(n)
              THEN [feasible |-> FALSE, held |-> n]
              ELSE PoolWalk(i + 1, HeldAfter(n, outs[k]), ext, outs)

\* ------------------------------------------------------------------------
\* Responses (QueryProcessor)
\* ------------------------------------------------------------------------
MSG_GENERATE == "Failed to generate SQL query"
MSG_INVALID == "Generated SQL is invalid"
MSG_EXECUTE == "SQL execution failed"

FailedResponse_NoMessage(user_query, error_message) ==
    [success |-> FALSE,
     original_query |-> user_query,
     extracted_entities |-> EmptyDict,
     normalized_entities |-> EmptyDict,
     generated_sql |-> None,
     results |-> <<>>,
     results_count |-> 0,
     execution_time_ms |-> 0,
     total_time_ms |-> 0,
     error_message |-> NULL]

\* QueryProcessor._failed_response
FailedResponse(user_query, error_message) ==
    [success |-> FALSE,
     original_query |-> user_query,
     extracted_entities |-> EmptyDict,
     normalized_entities |-> EmptyDict,
     generated_sql |-> None,
     results |-> <<>>,
     results_count |-> 0,
     execution_time_ms |-> 0,
     total_time_ms |-> 0,
     error_message |-> error_message]

SuccessResponse_NoError(user_query, ext, norm, sqlText, rows, ms, total) ==
    [success |-> TRUE,
     original_query |-> user_query,
     extracted_entities |-> ext,
     normalized_entities |-> norm,
     generated_sql |-> Some(sqlText),
     results |-> rows,
     results_count |-> Len(rows),
     execution_time_ms |-> ms,
     total_time_ms |-> total]

\* the response dict built at the end of process_query
SuccessResponse(user_query, ext, norm, sqlText, rows, ms, total) ==
    [success |-> TRUE,
     original_query |-> user_query,
     extracted_entities |-> ext,
     normalized_entities |-> norm,
     generated_sql |-> Some(sqlText),
     results |-> rows,
     results_count |-> Len(rows),
     execution_time_ms |-> ms,
     total_time_ms |-> total,
     error_message |-> NULL]

NoResponse == [success |-> FALSE, pending |-> TRUE]

\* rows execute_sql may fetch: member_id is NULL when the row has none
ROW_M1 == [member_id |-> "m1"]
ROW_M2 == [member_id |-> "m2"]
ROW_ANON == [member_id |-> NULL]
ResultSets == {<<>>, <<ROW_M1>>, <<ROW_M1, ROW_ANON, ROW_M2>>}


\* ------------------------------------------------------------------------
\* Text2SQLEngine
\* ------------------------------------------------------------------------
\* generate_sql: "if retry_count >= MAX_RETRIES: return None" guards a call
CanAttempt_OffByOne(rc) == rc <= MAX_RETRIES
CanAttempt(rc) == rc < MAX_RETRIES

GenerateStep_Uncleaned(out) ==
    IF out.kind = "raise"
    THEN [done |-> FALSE, ret |-> None, escaped |-> FALSE]
    ELSE IF ShapeOk(CleanSql(out.text))
         THEN [done |-> TRUE, ret |-> Some(Strip(out.text)), escaped |-> FALSE]
         ELSE [done |-> FALSE, ret |-> None, escaped |-> FALSE]

\* one frame of generate_sql given what generate_content did: done = the
\* frame returns sql, otherwise it recurses with retry_count + 1;
\* escaped = the exception leaves generate_sql
GenerateStep(out) ==
    IF out.kind = "raise"
    THEN [done |-> FALSE, ret |-> None, escaped |-> FALSE]
    ELSE IF ShapeOk(CleanSql(out.text))
         THEN [done |-> TRUE, ret |-> Some(CleanSql(out.text)), escaped |-> FALSE]
         ELSE [done |-> FALSE, ret |-> None, escaped |-> FALSE]

\* which branch of generate_sql the outcome takes
GenerateKind(out) ==
    IF out.kind = "raise" THEN "raise"
    ELSE IF GenerateStep(out).done THEN "accepted" ELSE "rejected"

\* process_query, "if not self.text2sql.validate_sql(sql)": a rejected
\* query goes to _log_query and _failed_response, an accepted one to execute_sql
AfterValidate_Regenerate(ok) == IF ok THEN "execute" ELSE "generate"
AfterValidate_SkipLog(ok) == IF ok THEN "execute" ELSE "respond"
AfterValidate_AlwaysExecute(ok) == "execute"
AfterValidate(ok) == IF ok THEN "execute" ELSE "log"

\* validate_sql: True only when EXPLAIN ran
ValidateSql(n, o) ==
    [ret |-> (o = "ok"), held |-> HeldAfter(n, o), escaped |-> FALSE]

\* execute_sql can also fail after cursor.execute(sql) returned: a statement
\* that yields no result set leaves cursor.description None, and the list
\* comprehension over it raises ("nodesc")
ExecuteOutcomes(n) ==
    StoreOutcomes(n) \cup (IF n < MAXCONN THEN {"nodesc"} ELSE {})

ExecuteSql_Raising(n, o, rows, ms) ==
    [results |-> IF o = "ok" THEN Some(rows) ELSE None,
     ms |-> ms,
     held |-> IF o \in {"fail", "nodesc"} THEN n + 1 ELSE n,
     escaped |-> (o # "ok")]

\* execute_sql: (results, execution_time_ms); ms is what the clock gives at
\* the return statement that runs
ExecuteSql(n, o, rows, ms) ==
    [results |-> IF o = "ok" THEN Some(rows) ELSE None,
     ms |-> ms,
     held |-> IF o \in {"fail", "nodesc"} THEN n + 1 ELSE n,
     escaped |-> FALSE]

ExecutionFailed_Falsy(res) == res.isNone \/ res.val = <<>>

\* process_query, "if results is None": an empty list is not a failure
ExecutionFailed(res) == res.isNone

\* ------------------------------------------------------------------------
\* QueryProcessor._log_query
\* ------------------------------------------------------------------------
\* the four call sites of _log_query in process_query
LogArgsGenerateFailed ==
    [sql |-> None, ms |-> 0, err |-> MSG_GENERATE, results |-> None]
LogArgsInvalid_WrongMessage(s) ==
    [sql |-> s, ms |-> 0, err |-> MSG_EXECUTE, results |-> None]
LogArgsInvalid(s) ==
    [sql |-> s, ms |-> 0, err |-> MSG_INVALID, results |-> None]
LogArgsExecuteFailed_NoTime(s, ms) ==
    [sql |-> s, ms |-> 0, err |-> MSG_EXECUTE, results |-> None]
LogArgsExecuteFailed(s, ms) ==
    [sql |-> s, ms |-> ms, err |-> MSG_EXECUTE, results |-> None]
LogArgsSuccess(s, ms, rows) ==
    [sql |-> s, ms |-> ms, err |-> NULL, results |-> Some(rows)]

\* "if results": neither None nor empty
Truthy(res) == ~res.isNone /\ res.val # <<>>

\* the search_queries row
LogRecord(id, user_query, args) ==
    [id |-> id,
     original_query |-> user_query,
     generated_sql |-> args.sql,
     results_count |-> IF Truthy(args.results) THEN Len(args.results.val) ELSE 0,
     execution_time_ms |-> args.ms,
     error_message |-> args.err]

\* the query_results rows: one per result whose member_id is set
RECURSIVE LinkRows(_, _)
LinkRows(id, rows) ==
    IF rows = <<>> THEN <<>>
    ELSE (IF Head(rows).member_id # NULL
          THEN <<[query_id |-> id, member_id |-> Head(rows).member_id]>>
          ELSE <<>>) \o LinkRows(id, Tail(rows))

Linkage_FirstOnly(id, args) ==
    IF Truthy(args.results) THEN LinkRows(id, <<Head(args.results.val)>>) ELSE <<>>

\* "if results:" lastval() and the loop over the results
Linkage(id, args) ==
    IF Truthy(args.results) THEN LinkRows(id, args.results.val) ELSE <<>>

\* where _log_query can raise: taking the connection, the INSERT, the
\* lastval/linkage statements (only run "if results"), the commit
LogOutcomes(n, args) ==
    IF n >= MAXCONN THEN {"noconn"}
    ELSE {"ok", "noconn", "insert", "commit"} \cup
         (IF Truthy(args.results) THEN {"lastval"} ELSE {}) \cup
         (IF Linkage(0, args) # <<>> THEN {"link"} ELSE {})

\* the rows _log_query has written on its connection when it ends with
\* outcome o: the INSERT into search_queries, then one INSERT into
\* query_results per linked result; k = linkage inserts done before the one
\* that raised
LogWrites(id, user_query, args, o, k) ==
    CASE o \in {"noconn", "insert"} -> <<>>
      [] o = "lastval" -> <<LogRecord(id, user_query, args)>>
      [] o = "link" -> <<LogRecord(id, user_query, args)>>
                           \o SubSeq(Linkage(id, args), 1, k)
      [] OTHER -> <<LogRecord(id, user_query, args)>> \o Linkage(id, args)

Published_Autocommit(writes, o) == writes

\* what other sessions get to see of them: the connection is not in
\* autocommit mode, so everything from the first execute on is one
\* transaction, published by conn.commit() and by nothing else
Published(writes, o) == IF o = "ok" THEN writes ELSE <<>>

IsLogRow(w) == "original_query" \in DOMAIN w

LogQuery_Uncaught(n, o) ==
    [committed |-> (o = "ok"),
     inserted |-> (o \notin {"noconn", "insert"}),
     held |-> IF o \in {"ok", "noconn"} THEN n ELSE n + 1,
     escaped |-> (o # "ok")]

\* effect of _log_query: committed = conn.commit() returned; its
\* "except Exception" lets nothing out
LogQuery(n, o) ==
    [committed |-> (o = "ok"),
     inserted |-> (o \notin {"noconn", "insert"}),
     held |-> IF o \in {"ok", "noconn"} THEN n ELSE n + 1,
     escaped |-> FALSE]

\* ------------------------------------------------------------------------
\* State
\* ------------------------------------------------------------------------
VARIABLES
    pc,                 \* position in process_query
    reqs,               \* process_query calls started
    query,              \* user_query
    stageOutcome,       \* how the store calls of the stage that ran last ended
                        \* (extract_entities, validate_sql, execute_sql), kept
                        \* until the next stage has run
    extracted,          \* extracted_entities
    normalized,         \* normalized_entities
    hints,              \* normalization_hints of normalize_query's result
    retry_count,        \* generate_sql's retry_count
    attempts,           \* generate_content calls of this request
    genLog,             \* how each of those calls ended ("raise", "rejected",
                        \* "accepted"), kept until the stage after generate_sql runs
    lastOut,            \* what the latest of those calls produced, kept as long
    sql,                \* sql
    validated,          \* the text validate_sql returned True for, if any
    results,            \* results
    execution_time_ms,  \* execution_time_ms
    logArgs,            \* arguments of the pending _log_query call
    logCalls,           \* _log_query calls of this request
    logCommits,         \* commits of this request
    trace,              \* stages invoked by this request, in order
    response,           \* what process_query returned
    escaped,            \* an exception left process_query
    checkedOut,         \* pool connections taken and not returned
    search_queries,     \* table search_queries
    query_results,      \* table query_results
    query_seq,          \* sequence behind search_queries.id
    openTx,             \* ids of the search_queries rows written in
                        \* transactions that were never committed
    thr,                \* DatabasePool callers: what each one is doing
    arg,                \* arguments of a direct call of a FuzzyMatcher or
                        \* EntityExtractor method
    ret,                \* what that call returned
    cls_pool,           \* DatabasePool._pool: 0 for None, else the number of
                        \* the SimpleConnectionPool instance it refers to
    instances,          \* the SimpleConnectionPool instances created so far:
                        \* instances[p] = connections of instance p in use
    takenFrom           \* per caller, the instance its connection came from

reqVars == <<query, stageOutcome, extracted, normalized, hints, retry_count, attempts, genLog, lastOut, sql,
             validated, results, execution_time_ms, logArgs, logCalls, logCommits, trace,
             response, escaped>>
storeVars == <<checkedOut, search_queries, query_results, query_seq, openTx>>
lazyVars == <<cls_pool, instances, takenFrom>>
auxVars == <<thr, arg, ret, lazyVars>>
vars == <<pc, reqs, reqVars, storeVars, auxVars>>

NoOut == [kind |-> "none", text |-> <<>>]
NoArgs == [sql |-> None, ms |-> 0, err |-> NULL, results |-> None]

\* no request has been made, nothing is checked out, the log tables are empty
PipelineInit ==
    /\ pc = "idle"
    /\ reqs = 0
    /\ query = Q_FOUNDER
    /\ stageOutcome = "none"
    /\ extracted = NoEntities
    /\ normalized = EmptyDict
    /\ hints = <<>>
    /\ retry_count = 0
    /\ attempts = 0
    /\ genLog = <<>>
    /\ lastOut = NoOut
    /\ sql = None
    /\ validated = None
    /\ results = None
    /\ execution_time_ms = 0
    /\ logArgs = NoArgs
    /\ logCalls = 0
    /\ logCommits = 0
    /\ trace = <<>>
    /\ response = NoResponse
    /\ escaped = FALSE
    /\ checkedOut = 0
    /\ search_queries = <<>>
    /\ query_results = <<>>
    /\ query_seq = 0
    /\ openTx = {}

\* the pool's callers are idle and no method is being called directly
Threads == 1..PoolThreads
NoCall == [op |-> "none"]
\* DatabasePool._pool is None until the first get_pool()
LazyInit ==
    /\ cls_pool = 0
    /\ instances = <<>>
    /\ takenFrom = [t \in Threads |-> 0]

AuxInit ==
    /\ thr = [t \in Threads |-> "idle"]
    /\ arg = NoCall
    /\ ret = NoCall
    /\ LazyInit

Init == PipelineInit /\ AuxInit

\* an exception leaves process_query: the caller gets no response
Raise ==
    /\ pc' = "raised"
    /\ escaped' = TRUE

\* process_query(user_query) is called
process_query ==
    /\ UNCHANGED auxVars
    /\ pc \in {"idle", "done", "raised"}
    /\ reqs < MaxRequests
    /\ \E q \in Queries : query' = q
    /\ reqs' = reqs + 1
    /\ pc' = "extract"
    /\ stageOutcome' = "none"
    /\ extracted' = NoEntities
    /\ normalized' = EmptyDict
    /\ hints' = <<>>
    /\ retry_count' = 0
    /\ attempts' = 0
    /\ genLog' = <<>>
    /\ lastOut' = NoOut
    /\ sql' = None
    /\ validated' = None
    /\ results' = None
    /\ execution_time_ms' = 0
    /\ logArgs' = NoArgs
    /\ logCalls' = 0
    /\ logCommits' = 0
    /\ trace' = <<>>
    /\ response' = NoResponse
    /\ escaped' = FALSE
    /\ UNCHANGED storeVars

\* normalize_query, step 1: self.extractor.extract_entities(user_query)
extract_entities ==
    /\ UNCHANGED auxVars
    /\ pc = "extract"
    /\ \E o \in StoreOutcomes(checkedOut) :
         /\ stageOutcome' = o
         /\ extracted' = ExtractEntities(query, GetDbContext(query, o))
         /\ checkedOut' = HeldAfter(checkedOut, o)
    /\ trace' = Append(trace, "extract")
    /\ pc' = "normalize"
    /\ UNCHANGED <<reqs, query, normalized, hints, retry_count, attempts, genLog,
                   lastOut, sql, validated, results, execution_time_ms,
                   logArgs, logCalls, logCommits, response, escaped, search_queries, query_results, query_seq, openTx>>

\* normalize_query, steps 2 and 3: self.matcher.normalize_all(extracted) and
\* self._build_hints(extracted, normalized); then the call of generate_sql
normalize_all ==
    /\ UNCHANGED auxVars
    /\ pc = "normalize"
    /\ \E outs \in [Categories -> {"ok", "fail", "noconn"}] :
         /\ \A k \in Categories : ~Populated(extracted, k) => outs[k] = "ok"
         /\ PoolWalk(1, checkedOut, extracted, outs).feasible
         /\ normalized' = NormalizeAll(query, extracted, outs)
         /\ hints' \in BuildHints(NormalizeAll(query, extracted, outs))
         /\ checkedOut' = PoolWalk(1, checkedOut, extracted, outs).held
    /\ trace' = Append(trace, "normalize")
    /\ pc' = "generate"
    /\ stageOutcome' = "none"
    /\ retry_count' = 0
    /\ UNCHANGED <<reqs, query, extracted, attempts, genLog, lastOut, sql,
                   validated, results, execution_time_ms, logArgs, logCalls,
                   logCommits, response, escaped, search_queries, query_results, query_seq, openTx>>

\* generate_sql with retry_count < MAX_RETRIES: one generate_content call
generate_sql_attempt ==
    /\ UNCHANGED auxVars
    /\ pc = "generate"
    /\ CanAttempt(retry_count)
    /\ \E out \in GenOutcomes :
         /\ lastOut' = out
         /\ genLog' = Append(genLog, GenerateKind(out))
         /\ IF GenerateStep(out).escaped
            THEN Raise /\ UNCHANGED <<sql, retry_count>>
            ELSE /\ escaped' = escaped
                 /\ IF GenerateStep(out).done
                    THEN /\ sql' = GenerateStep(out).ret
                         /\ pc' = "validate"
                         /\ retry_count' = retry_count
                    ELSE /\ sql' = sql
                         /\ pc' = pc
                         /\ retry_count' = retry_count + 1
    /\ attempts' = attempts + 1
    /\ trace' = Append(trace, "synthesize")
    /\ UNCHANGED <<reqs, query, stageOutcome, extracted, normalized, hints, validated, results,
                   execution_time_ms, logArgs, logCalls, logCommits,
                   response, storeVars>>

\* generate_sql with retry_count >= MAX_RETRIES returns None, and
\* process_query takes its "if not sql" branch
generate_sql_exhausted ==
    /\ UNCHANGED auxVars
    /\ pc = "generate"
    /\ ~CanAttempt(retry_count)
    /\ sql' = None
    /\ logArgs' = LogArgsGenerateFailed
    /\ pc' = "log"
    /\ UNCHANGED <<reqs, query, stageOutcome, extracted, normalized, hints, retry_count, attempts,
                   genLog, lastOut, validated, results, execution_time_ms,
                   logCalls, logCommits, trace, response, escaped, storeVars>>

\* self.text2sql.validate_sql(sql) and the branch on its result
validate_sql ==
    /\ UNCHANGED auxVars
    /\ pc = "validate"
    /\ \E o \in StoreOutcomes(checkedOut) :
         LET v == ValidateSql(checkedOut, o) IN
         /\ stageOutcome' = o
         /\ checkedOut' = v.held
         /\ validated' = IF v.ret /\ ~v.escaped THEN sql ELSE None
         /\ IF v.escaped
            THEN Raise /\ UNCHANGED logArgs
            ELSE /\ escaped' = escaped
                 /\ pc' = AfterValidate(v.ret)
                 /\ logArgs' = IF v.ret THEN logArgs ELSE LogArgsInvalid(sql)
    /\ trace' = Append(trace, "validate")
    /\ genLog' = <<>>
    /\ lastOut' = NoOut
    /\ UNCHANGED <<reqs, query, extracted, normalized, hints, retry_count, attempts,
                   sql, results, execution_time_ms, logCalls, logCommits,
                   response, search_queries, query_results, query_seq, openTx>>

\* self.text2sql.execute_sql(sql) and the branch on "results is None"
execute_sql ==
    /\ UNCHANGED auxVars
    /\ pc = "execute"
    /\ \E o \in ExecuteOutcomes(checkedOut), rows \in ResultSets, ms \in 0..MaxMs :
         LET x == ExecuteSql(checkedOut, o, rows, ms) IN
         /\ stageOutcome' = o
         /\ checkedOut' = x.held
         /\ results' = x.results
         /\ execution_time_ms' = x.ms
         /\ IF x.escaped
            THEN Raise /\ UNCHANGED logArgs
            ELSE /\ escaped' = escaped
                 /\ pc' = "log"
                 /\ logArgs' = IF ExecutionFailed(x.results)
                               THEN LogArgsExecuteFailed(sql, x.ms)
                               ELSE LogArgsSuccess(sql, x.ms, x.results.val)
    /\ trace' = Append(trace, "execute")
    /\ UNCHANGED <<reqs, query, extracted, normalized, hints, retry_count, attempts,
                   genLog, lastOut, sql, validated, logCalls, logCommits,
                   response, search_queries, query_results, query_seq, openTx>>

\* self._log_query(user_query, sql, execution_time_ms, error_message, results)
log_query ==
    /\ UNCHANGED auxVars
    /\ pc = "log"
    /\ \E o \in LogOutcomes(checkedOut, logArgs) :
         LET l == LogQuery(checkedOut, o) IN
         /\ checkedOut' = l.held
         /\ query_seq' = IF l.inserted THEN query_seq + 1 ELSE query_seq
         /\ \E k \in IF o = "link"
                      THEN 0..(Len(Linkage(query_seq + 1, logArgs)) - 1)
                      ELSE {0} :
              LET writes == LogWrites(query_seq + 1, query.text, logArgs, o, k)
                  seen == Published(writes, o)
              IN /\ search_queries' =
                      search_queries \o SelectSeq(seen, IsLogRow)
                 /\ query_results' =
                      query_results \o SelectSeq(seen, LAMBDA w : ~IsLogRow(w))
                 /\ openTx' = IF writes # <<>> /\ o # "ok"
                               THEN openTx \cup {query_seq + 1}
                               ELSE openTx
         /\ logCommits' = IF l.committed THEN logCommits + 1 ELSE logCommits
         /\ IF l.escaped THEN Raise
            ELSE pc' = "respond" /\ escaped' = escaped
    /\ logCalls' = logCalls + 1
    /\ stageOutcome' = "none"
    /\ trace' = Append(trace, "log")
    /\ genLog' = <<>>
    /\ lastOut' = NoOut
    /\ UNCHANGED <<reqs, query, extracted, normalized, hints, retry_count, attempts,
                   sql, validated, results, execution_time_ms, logArgs,
                   response>>

respond_KeepingComputed ==
    /\ UNCHANGED auxVars
    /\ pc = "respond"
    /\ \E t \in 0..MaxMs :
         response' =
           IF logArgs.err # NULL
           THEN [FailedResponse(query.text, logArgs.err) EXCEPT
                    !.extracted_entities = extracted,
                    !.normalized_entities = normalized,
                    !.generated_sql = sql,
                    !.execution_time_ms = execution_time_ms]
           ELSE SuccessResponse(query.text, extracted, normalized, sql.val,
                                results.val, execution_time_ms,
                                execution_time_ms + t)
    /\ trace' = Append(trace, "terminal")
    /\ pc' = "done"
    /\ UNCHANGED <<reqs, query, stageOutcome, extracted, normalized, hints, retry_count, attempts,
                   genLog, lastOut, sql, validated, results, execution_time_ms,
                   logArgs, logCalls, logCommits, escaped, storeVars>>
\* the return statement after _log_query: _failed_response(...) on the
\* three failure branches, the response dict on the success path
respond ==
    /\ UNCHANGED auxVars
    /\ pc = "respond"
    /\ \E t \in 0..MaxMs :
         response' =
           IF logArgs.err # NULL
           THEN FailedResponse(query.text, logArgs.err)
           ELSE SuccessResponse(query.text, extracted, normalized, sql.val,
                                results.val, execution_time_ms,
                                execution_time_ms + t)
    /\ trace' = Append(trace, "terminal")
    /\ pc' = "done"
    /\ UNCHANGED <<reqs, query, stageOutcome, extracted, normalized, hints, retry_count, attempts,
                   genLog, lastOut, sql, validated, results, execution_time_ms,
                   logArgs, logCalls, logCommits, escaped, storeVars>>

Next ==
    \/ process_query
    \/ extract_entities
    \/ normalize_all
    \/ generate_sql_attempt
    \/ generate_sql_exhausted
    \/ validate_sql
    \/ execute_sql
    \/ log_query
    \/ respond

Spec == Init /\ [][Next]_vars

TypeOK ==
    /\ pc \in {"idle", "extract", "normalize", "generate", "validate",
               "execute", "log", "respond", "done", "raised"}
    /\ reqs \in 0..MaxRequests
    /\ retry_count \in 0..MAX_RETRIES
    /\ checkedOut \in 0..MAXCONN


\* ------------------------------------------------------------------------
\* One call of process_query followed to its end.  The pool may already be
\* partly or wholly checked out when the call starts (connections left
\* behind by earlier calls).  Every step is straight-line code around one
\* external call (a store read, generate_content followed by a sleep of
\* RETRY_DELAY, EXPLAIN, the query, the log inserts); as long as each such
\* call returns or raises, the step that is enabled is taken.
\* ------------------------------------------------------------------------
PoolAtStart == {0, MAXCONN - 1, MAXCONN}

InitRun ==
    /\ pc = "idle"
    /\ reqs = 0
    /\ query = Q_FOUNDER
    /\ stageOutcome = "none"
    /\ extracted = NoEntities
    /\ normalized = EmptyDict
    /\ hints = <<>>
    /\ retry_count = 0
    /\ attempts = 0
    /\ genLog = <<>>
    /\ lastOut = NoOut
    /\ sql = None
    /\ validated = None
    /\ results = None
    /\ execution_time_ms = 0
    /\ logArgs = NoArgs
    /\ logCalls = 0
    /\ logCommits = 0
    /\ trace = <<>>
    /\ response = NoResponse
    /\ escaped = FALSE
    /\ checkedOut \in PoolAtStart
    /\ search_queries = <<>>
    /\ query_results = <<>>
    /\ query_seq = 0
    /\ openTx = {}
    /\ AuxInit

\* the call under observation
process_query_once == pc = "idle" /\ process_query

\* the steps of the call once it has started
RunStep ==
    \/ extract_entities
    \/ normalize_all
    \/ generate_sql_attempt
    \/ generate_sql_exhausted
    \/ validate_sql
    \/ execute_sql
    \/ log_query
    \/ respond

NextRun == process_query_once \/ RunStep

SpecRun == InitRun /\ [][NextRun]_vars /\ WF_vars(RunStep)


\* ------------------------------------------------------------------------
\* DatabasePool (db_config.py) under several callers.  The pool is
\* psycopg2's SimpleConnectionPool(1, 20): getconn hands out a connection
\* while fewer than maxconn are in use and raises PoolError otherwise; it
\* never waits.  A caller is "idle", is "holding" a connection, has the
\* exception of a failed get_db_connection() in flight, or has left its
\* handler, which returned its value ("ok") or its failure value ("failed").
\* ------------------------------------------------------------------------
GetConn_Unbounded(n, o) ==
    IF o = "connect_error"
    THEN [err |-> "OperationalError", used |-> n]
    ELSE [err |-> NULL, used |-> n + 1]

\* DatabasePool.get_connection with n connections in use; o says whether
\* opening a new connection works
GetConn(n, o) ==
    IF n >= MAXCONN THEN [err |-> "PoolError", used |-> n]
    ELSE IF o = "connect_error"
         THEN [err |-> "OperationalError", used |-> n]
         ELSE [err |-> NULL, used |-> n + 1]

\* DatabasePool.return_connection
PutConn(n) == n - 1

Resting == {"idle", "ok", "failed"}

poolFrame == <<pc, reqs, reqVars, search_queries, query_results, query_seq,
               openTx, arg, ret, lazyVars>>

\* conn = get_db_connection()
get_db_connection(t) ==
    /\ thr[t] \in Resting
    /\ \E o \in {"ok", "connect_error"} :
         LET g == GetConn(checkedOut, o) IN
         /\ checkedOut' = g.used
         /\ thr' = [thr EXCEPT ![t] = IF g.err = NULL THEN "holding" ELSE g.err]
    /\ UNCHANGED poolFrame

\* close_db_connection(conn) on a handler's straight-line path
close_db_connection(t) ==
    /\ thr[t] = "holding"
    /\ checkedOut' = PutConn(checkedOut)
    /\ thr' = [thr EXCEPT ![t] = "ok"]
    /\ UNCHANGED poolFrame

\* a statement raised while the handler held the connection: its except
\* branch returns without close_db_connection
handler_except(t) ==
    /\ thr[t] = "holding"
    /\ thr' = [thr EXCEPT ![t] = "failed"]
    /\ UNCHANGED checkedOut
    /\ UNCHANGED poolFrame

\* get_db_connection() raised inside the handler's try: "except Exception"
\* turns it into the handler's failure value
handler_caught(t) ==
    /\ thr[t] \in {"PoolError", "OperationalError"}
    /\ thr' = [thr EXCEPT ![t] = "failed"]
    /\ UNCHANGED checkedOut
    /\ UNCHANGED poolFrame

NextPool ==
    \/ \E t \in Threads : get_db_connection(t)
    \/ \E t \in Threads : close_db_connection(t)
    \/ \E t \in Threads : handler_except(t)
    \/ \E t \in Threads : handler_caught(t)

SpecPool == Init /\ [][NextPool]_vars

TypeOKPool ==
    /\ thr \in [Threads -> Resting \cup {"holding", "PoolError", "OperationalError"}]
    /\ checkedOut \in 0..MAXCONN
    /\ Cardinality({t \in Threads : thr[t] = "holding"}) <= checkedOut

\* ------------------------------------------------------------------------
\* DatabasePool.get_pool under several callers, followed statement by
\* statement.  get_pool tests "cls._pool is None", builds a
\* SimpleConnectionPool and assigns it, then returns whatever cls._pool
\* holds at that moment; nothing makes the test and the assignment one step.
\* A caller is resting, has seen None ("creating"), has assigned its pool
\* ("created"), has seen a pool ("has_pool") or is "holding" a connection.
\* ------------------------------------------------------------------------
\* "if cls._pool is None"
PoolIsNone(p) == p = 0

lazyFrame == <<pc, reqs, reqVars, storeVars, arg, ret>>

\* get_connection() enters get_pool() and evaluates its test
get_pool_test(t) ==
    /\ thr[t] \in Resting
    /\ thr' = [thr EXCEPT ![t] = IF PoolIsNone(cls_pool) THEN "creating"
                                 ELSE "has_pool"]
    /\ UNCHANGED <<lazyVars, lazyFrame>>

\* cls._pool = pool.SimpleConnectionPool(1, 20, ...): the constructor opens
\* the first connection and raises when the server cannot be reached
create_pool(t) ==
    /\ thr[t] = "creating"
    /\ \E o \in {"ok", "connect_error"} :
         IF o = "ok"
         THEN /\ instances' = Append(instances, 0)
              /\ cls_pool' = Len(instances) + 1
              /\ thr' = [thr EXCEPT ![t] = "created"]
         ELSE /\ thr' = [thr EXCEPT ![t] = "failed"]
              /\ UNCHANGED <<instances, cls_pool>>
    /\ UNCHANGED <<takenFrom, lazyFrame>>

\* "return cls._pool" and .getconn() on the instance returned
getconn(t) ==
    /\ thr[t] \in {"created", "has_pool"}
    /\ LET g == GetConn(instances[cls_pool], "ok") IN
         IF g.err = NULL
         THEN /\ instances' = [instances EXCEPT ![cls_pool] = g.used]
              /\ takenFrom' = [takenFrom EXCEPT ![t] = cls_pool]
              /\ thr' = [thr EXCEPT ![t] = "holding"]
         ELSE /\ thr' = [thr EXCEPT ![t] = "failed"]
              /\ UNCHANGED <<instances, takenFrom>>
    /\ UNCHANGED <<cls_pool, lazyFrame>>

\* return_connection(conn): cls.get_pool().putconn(conn).  putconn raises
\* PoolError("trying to put unkeyed connection") when the instance does not
\* know the connection, which then stays in use in the instance it came from
return_connection(t) ==
    /\ thr[t] = "holding"
    /\ IF cls_pool = takenFrom[t]
       THEN /\ instances' = [instances EXCEPT ![cls_pool] = PutConn(instances[cls_pool])]
            /\ thr' = [thr EXCEPT ![t] = "ok"]
       ELSE /\ thr' = [thr EXCEPT ![t] = "PoolError"]
            /\ UNCHANGED instances
    /\ takenFrom' = [takenFrom EXCEPT ![t] = 0]
    /\ UNCHANGED <<cls_pool, lazyFrame>>

\* the PoolError of return_connection leaves the handler's try block
return_failed(t) ==
    /\ thr[t] = "PoolError"
    /\ thr' = [thr EXCEPT ![t] = "failed"]
    /\ UNCHANGED <<lazyVars, lazyFrame>>

NextLazy ==
    \/ \E t \in Threads : get_pool_test(t)
    \/ \E t \in Threads : create_pool(t)
    \/ \E t \in Threads : getconn(t)
    \/ \E t \in Threads : return_connection(t)
    \/ \E t \in Threads : return_failed(t)

SpecLazy == Init /\ [][NextLazy]_vars

\* ------------------------------------------------------------------------
\* fuzzy_matching.py on text: names and queries are sequences of characters
\* ------------------------------------------------------------------------
SIMILARITY_THRESHOLD == 75
EXTRACT_LIMIT == 10

UPPERCASE == <<"A","B","C","D","E","F","G","H","I","J","K","L","M","N","O","P","Q","R","S","T","U","V","W","X","Y","Z">>
LOWERCASE == <<"a","b","c","d","e","f","g","h","i","j","k","l","m","n","o","p","q","r","s","t","u","v","w","x","y","z">>
DIGITS == {"0","1","2","3","4","5","6","7","8","9"}

\* str.lower() / str.upper() on ASCII text
LowerOf == [c \in {UPPERCASE[i] : i \in 1..26} |->
               LOWERCASE[CHOOSE i \in 1..26 : UPPERCASE[i] = c]]
UpperOf == [c \in {LOWERCASE[i] : i \in 1..26} |->
               UPPERCASE[CHOOSE i \in 1..26 : LOWERCASE[i] = c]]
LowerChar(c) == IF c \in DOMAIN LowerOf THEN LowerOf[c] ELSE c
Lower(s) == [i \in 1..Len(s) |-> LowerChar(s[i])]
CapitalChar(c) == IF c \in DOMAIN UpperOf THEN UpperOf[c] ELSE c
AllCaps(s) == [i \in 1..Len(s) |-> CapitalChar(s[i])]

\* INSTITUTE_ABBREVIATIONS, in the order of the dict literal
AbbreviationTable == <<
    [k |-> <<"i","i","t"," ","b">>,
     v |-> <<"I","n","d","i","a","n"," ","I","n","s","t","i","t","u","t","e"," ","o","f"," ","T","e","c","h","n","o","l","o","g","y",","," ","B","o","m","b","a","y">>],
    [k |-> <<"i","i","t"," ","b","o","m","b","a","y">>,
     v |-> <<"I","n","d","i","a","n"," ","I","n","s","t","i","t","u","t","e"," ","o","f"," ","T","e","c","h","n","o","l","o","g","y",","," ","B","o","m","b","a","y">>],
    [k |-> <<"i","i","t"," ","d">>,
     v |-> <<"I","n","d","i","a","n"," ","I","n","s","t","i","t","u","t","e"," ","o","f"," ","T","e","c","h","n","o","l","o","g","y",","," ","D","e","l","h","i">>],
    [k |-> <<"i","i","t"," ","d","e","l","h","i">>,
     v |-> <<"I","n","d","i","a","n"," ","I","n","s","t","i","t","u","t","e"," ","o","f"," ","T","e","c","h","n","o","l","o","g","y",","," ","D","e","l","h","i">>],
    [k |-> <<"i","i","t"," ","k">>,
     v |-> <<"I","n","d","i","a","n"," ","I","n","s","t","i","t","u","t","e"," ","o","f"," ","T","e","c","h","n","o","l","o","g","y",","," ","K","h","a","r","a","g","p","u","r">>],
    [k |-> <<"i","i","t"," ","k","h","a","r","a","g","p","u","r">>,
     v |-> <<"I","n","d","i","a","n"," ","I","n","s","t","i","t","u","t","e"," ","o","f"," ","T","e","c","h","n","o","l","o","g","y",","," ","K","h","a","r","a","g","p","u","r">>],
    [k |-> <<"i","i","t"," ","m">>,
     v |-> <<"I","n","d","i","a","n"," ","I","n","s","t","i","t","u","t","e"," ","o","f"," ","T","e","c","h","n","o","l","o","g","y",","," ","M","a","d","r","a","s">>],
    [k |-> <<"i","i","t"," ","m","a","d","r","a","s">>,
     v |-> <<"I","n","d","i","a","n"," ","I","n","s","t","i","t","u","t","e"," ","o","f"," ","T","e","c","h","n","o","l","o","g","y",","," ","M","a","d","r","a","s">>],
    [k |-> <<"i","i","t"," ","g">>,
     v |-> <<"I","n","d","i","a","n"," ","I","n","s","t","i","t","u","t","e"," ","o","f"," ","T","e","c","h","n","o","l","o","g","y",","," ","G","u","w","a","h","a","t","i">>],
    [k |-> <<"i","i","t"," ","g","u","w","a","h","a","t","i">>,
     v |-> <<"I","n","d","i","a","n"," ","I","n","s","t","i","t","u","t","e"," ","o","f"," ","T","e","c","h","n","o","l","o","g","y",","," ","G","u","w","a","h","a","t","i">>],
    [k |-> <<"i","i","t"," ","r">>,
     v |-> <<"I","n","d","i","a","n"," ","I","n","s","t","i","t","u","t","e"," ","o","f"," ","T","e","c","h","n","o","l","o","g","y",","," ","R","o","o","r","k","e","e">>],
    [k |-> <<"i","i","t"," ","r","o","o","r","k","e","e">>,
     v |-> <<"I","n","d","i","a","n"," ","I","n","s","t","i","t","u","t","e"," ","o","f"," ","T","e","c","h","n","o","l","o","g","y",","," ","R","o","o","r","k","e","e">>],
    [k |-> <<"i","i","t"," ","k","g","p">>,
     v |-> <<"I","n","d","i","a","n"," ","I","n","s","t","i","t","u","t","e"," ","o","f"," ","T","e","c","h","n","o","l","o","g","y",","," ","K","h","a","r","a","g","p","u","r">>],
    [k |-> <<"i","i","t"," ","k","a","n","p","u","r">>,
     v |-> <<"I","n","d","i","a","n"," ","I","n","s","t","i","t","u","t","e"," ","o","f"," ","T","e","c","h","n","o","l","o","g","y",","," ","K","a","n","p","u","r">>],
    [k |-> <<"i","i","t"," ","b","h","u">>,
     v |-> <<"I","n","d","i","a","n"," ","I","n","s","t","i","t","u","t","e"," ","o","f"," ","T","e","c","h","n","o","l","o","g","y",","," ","V","a","r","a","n","a","s","i">>],
    [k |-> <<"i","i","m"," ","a">>,
     v |-> <<"I","n","d","i","a","n"," ","I","n","s","t","i","t","u","t","e"," ","o","f"," ","M","a","n","a","g","e","m","e","n","t",","," ","A","h","m","e","d","a","b","a","d">>],
    [k |-> <<"i","i","m"," ","a","h","m","e","d","a","b","a","d">>,
     v |-> <<"I","n","d","i","a","n"," ","I","n","s","t","i","t","u","t","e"," ","o","f"," ","M","a","n","a","g","e","m","e","n","t",","," ","A","h","m","e","d","a","b","a","d">>],
    [k |-> <<"i","i","m"," ","b">>,
     v |-> <<"I","n","d","i","a","n"," ","I","n","s","t","i","t","u","t","e"," ","o","f"," ","M","a","n","a","g","e","m","e","n","t",","," ","B","a","n","g","a","l","o","r","e">>],
    [k |-> <<"i","i","m"," ","b","a","n","g","a","l","o","r","e">>,
     v |-> <<"I","n","d","i","a","n"," ","I","n","s","t","i","t","u","t","e"," ","o","f"," ","M","a","n","a","g","e","m","e","n","t",","," ","B","a","n","g","a","l","o","r","e">>],
    [k |-> <<"i","i","m"," ","c">>,
     v |-> <<"I","n","d","i","a","n"," ","I","n","s","t","i","t","u","t","e"," ","o","f"," ","M","a","n","a","g","e","m","e","n","t",","," ","C","a","l","c","u","t","t","a">>],
    [k |-> <<"i","i","m"," ","c","a","l","c","u","t","t","a">>,
     v |-> <<"I","n","d","i","a","n"," ","I","n","s","t","i","t","u","t","e"," ","o","f"," ","M","a","n","a","g","e","m","e","n","t",","," ","C","a","l","c","u","t","t","a">>],
    [k |-> <<"i","i","m"," ","l">>,
     v |-> <<"I","n","d","i","a","n"," ","I","n","s","t","i","t","u","t","e"," ","o","f"," ","M","a","n","a","g","e","m","e","n","t",","," ","L","u","c","k","n","o","w">>],
    [k |-> <<"i","i","m"," ","l","u","c","k","n","o","w">>,
     v |-> <<"I","n","d","i","a","n"," ","I","n","s","t","i","t","u","t","e"," ","o","f"," ","M","a","n","a","g","e","m","e","n","t",","," ","L","u","c","k","n","o","w">>],
    [k |-> <<"m","i","t">>,
     v |-> <<"M","a","s","s","a","c","h","u","s","e","t","t","s"," ","I","n","s","t","i","t","u","t","e"," ","o","f"," ","T","e","c","h","n","o","l","o","g","y">>],
    [k |-> <<"s","t","a","n","f","o","r","d">>,
     v |-> <<"S","t","a","n","f","o","r","d"," ","U","n","i","v","e","r","s","i","t","y">>],
    [k |-> <<"h","a","r","v","a","r","d">>,
     v |-> <<"H","a","r","v","a","r","d"," ","U","n","i","v","e","r","s","i","t","y">>],
    [k |-> <<"o","x","f","o","r","d">>,
     v |-> <<"U","n","i","v","e","r","s","i","t","y"," ","o","f"," ","O","x","f","o","r","d">>],
    [k |-> <<"c","a","m","b","r","i","d","g","e">>,
     v |-> <<"U","n","i","v","e","r","s","i","t","y"," ","o","f"," ","C","a","m","b","r","i","d","g","e">>],
    [k |-> <<"b","e","r","k","e","l","e","y">>,
     v |-> <<"U","n","i","v","e","r","s","i","t","y"," ","o","f"," ","C","a","l","i","f","o","r","n","i","a",","," ","B","e","r","k","e","l","e","y">>],
    [k |-> <<"c","a","l","t","e","c","h">>,
     v |-> <<"C","a","l","i","f","o","r","n","i","a"," ","I","n","s","t","i","t","u","t","e"," ","o","f"," ","T","e","c","h","n","o","l","o","g","y">>],
    [k |-> <<"b","i","t","s">>,
     v |-> <<"B","i","r","l","a"," ","I","n","s","t","i","t","u","t","e"," ","o","f"," ","T","e","c","h","n","o","l","o","g","y"," ","a","n","d"," ","S","c","i","e","n","c","e">>],
    [k |-> <<"b","i","t","s"," ","p","i","l","a","n","i">>,
     v |-> <<"B","i","r","l","a"," ","I","n","s","t","i","t","u","t","e"," ","o","f"," ","T","e","c","h","n","o","l","o","g","y"," ","a","n","d"," ","S","c","i","e","n","c","e",","," ","P","i","l","a","n","i">>],
    [k |-> <<"i","i","i","t">>,
     v |-> <<"I","n","t","e","r","n","a","t","i","o","n","a","l"," ","I","n","s","t","i","t","u","t","e"," ","o","f"," ","I","n","f","o","r","m","a","t","i","o","n"," ","T","e","c","h","n","o","l","o","g","y">>],
    [k |-> <<"n","i","t">>,
     v |-> <<"N","a","t","i","o","n","a","l"," ","I","n","s","t","i","t","u","t","e"," ","o","f"," ","T","e","c","h","n","o","l","o","g","y">>]
>>

AbbreviationKeys == {AbbreviationTable[i].k : i \in 1..Len(AbbreviationTable)}
\* INSTITUTE_ABBREVIATIONS[key]
Abbreviation(key) ==
    AbbreviationTable[CHOOSE i \in 1..Len(AbbreviationTable) :
                          AbbreviationTable[i].k = key].v

\* fuzzywuzzy utils.full_process: characters that are not ASCII letters or
\* digits become blanks, then lower() and strip()
IsAlnum(c) == c \in DIGITS \/ c \in DOMAIN LowerOf \/ c \in DOMAIN UpperOf
FullProcess(s) ==
    Strip(Lower([i \in 1..Len(s) |-> IF IsAlnum(s[i]) THEN s[i] ELSE " "]))

\* set(p.split()) of a processed string
TokenSet(p) ==
    {SubSeq(p, x[1], x[2]) : x \in
        {y \in (1..Len(p)) \X (1..Len(p)) :
            /\ y[1] <= y[2]
            /\ \A n \in y[1]..y[2] : p[n] # " "
            /\ (y[1] = 1 \/ p[y[1] - 1] = " ")
            /\ (y[2] = Len(p) \/ p[y[2] + 1] = " ")}}

\* fuzz.token_set_ratio as process.extract applies it to the processed
\* strings: 100 when they are equal, 0 when one of them is empty, 100 when
\* one token set contains the other; otherwise the best of three
\* edit-distance ratios, which is lev here (what the installed edit-distance
\* backend computes for the pair)
TokenSetRatio(s1, s2, lev) ==
    LET p1 == FullProcess(s1)
        p2 == FullProcess(s2)
    IN IF p1 = p2 THEN 100
       ELSE IF p1 = <<>> \/ p2 = <<>> THEN 0
       ELSE IF TokenSet(p1) \subseteq TokenSet(p2) \/ TokenSet(p2) \subseteq TokenSet(p1)
            THEN 100
            ELSE lev

\* heapq.nlargest(n, scored, key=score): positions of the n best scores,
\* best first, equal scores in list order
Rank(scores, i) ==
    Cardinality({j \in 1..Len(scores) :
                    scores[j] > scores[i] \/ (scores[j] = scores[i] /\ j < i)})
NLargest(n, scores) ==
    [r \in 1..(IF n < Len(scores) THEN n ELSE Len(scores)) |->
        CHOOSE i \in 1..Len(scores) : Rank(scores, i) = r - 1]

RECURSIVE Dedupe(_)
Dedupe(s) ==
    IF s = <<>> THEN <<>>
    ELSE LET front == SubSeq(s, 1, Len(s) - 1) IN
         IF \E i \in 1..Len(front) : front[i] = s[Len(s)]
         THEN Dedupe(front)
         ELSE Dedupe(front) \o <<s[Len(s)]>>

Rotate(s, k) == SubSeq(s, k + 1, Len(s)) \o SubSeq(s, 1, k)
Rotations(s) ==
    IF s = <<>> THEN {<<>>} ELSE {Rotate(s, k) : k \in 0..(Len(s) - 1)}

\* list(set(xs)): every element once, in the order the set iterates, which
\* the hashes of the strings decide: any element may come first
ListOfSet(xs) == Rotations(Dedupe(xs))

\* db_values = [v for v in db_values if v]
NonEmpty(db_values) == SelectSeq(db_values, LAMBDA v : v # <<>>)

\* the score process.extract computes for each choice v.lower(); lev maps a
\* choice to the edit-distance part of its score
MatchScores(user_input, vals, lev) ==
    [i \in 1..Len(vals) |->
        TokenSetRatio(Lower(user_input), Lower(vals[i]), lev[Lower(vals[i])])]

\* db_values_lower[c] of {v.lower(): v for v in db_values}: the last v wins
OriginalCasing(vals, c) ==
    vals[CHOOSE i \in 1..Len(vals) :
            /\ Lower(vals[i]) = c
            /\ \A j \in (i + 1)..Len(vals) : Lower(vals[j]) # c]

\* "if score >= self.threshold"
Qualifies(score) == score >= SIMILARITY_THRESHOLD

\* FuzzyMatcher.match_entity: the lists it may return
match_entity(user_input, db_values, lev) ==
    IF user_input = <<>> \/ db_values = <<>> THEN {<<>>}
    ELSE LET vals == NonEmpty(db_values) IN
         IF vals = <<>> THEN {<<>>}
         ELSE LET scores == MatchScores(user_input, vals, lev)
                  matches == NLargest(EXTRACT_LIMIT, scores)
                  kept == SelectSeq(matches, LAMBDA i : Qualifies(scores[i]))
                  matched_values ==
                      [r \in 1..Len(kept) |->
                          OriginalCasing(vals, Lower(vals[kept[r]]))]
              IN ListOfSet(matched_values)

InstituteCandidates_Both(institute, db_institutes, lev) ==
    UNION {ListOfSet((IF Lower(institute) \in AbbreviationKeys
                      THEN <<Abbreviation(Lower(institute))>>
                      ELSE IF fuzzy_matches # <<>> THEN <<institute>> ELSE <<>>)
                     \o fuzzy_matches) :
              fuzzy_matches \in match_entity(institute, db_institutes, lev)}

\* the body of the loop of normalize_institutes: the lists it may store
\* under result[institute]; <<>> stands for storing nothing
InstituteCandidates(institute, db_institutes, lev) ==
    IF Lower(institute) \in AbbreviationKeys
    THEN ListOfSet(<<Abbreviation(Lower(institute))>>)
    ELSE UNION {IF fuzzy_matches # <<>>
                THEN ListOfSet(<<institute>> \o fuzzy_matches)
                ELSE {<<>>} :
                   fuzzy_matches \in match_entity(institute, db_institutes, lev)}

\* the inputs normalize_institutes passes to match_entity
FuzzyCalls(inputs) ==
    SelectSeq(inputs, LAMBDA e : Lower(e) \notin AbbreviationKeys)

\* the dicts a normalize_ loop may build: cands[e] = the lists it may store
\* under result[e]
RECURSIVE ResultDicts(_, _)
ResultDicts(keys, cands) ==
    IF keys = {} THEN {EmptyDict}
    ELSE LET e == CHOOSE x \in keys : TRUE IN
         {IF l = <<>> THEN d ELSE (e :> l) @@ d :
             l \in cands[e], d \in ResultDicts(keys \ {e}, cands)}

Elements(seq) == {seq[i] : i \in 1..Len(seq)}

\* FuzzyMatcher.normalize_institutes
normalize_institutes(inputs, db_institutes, lev) ==
    ResultDicts(Elements(inputs),
                [e \in Elements(inputs) |->
                    InstituteCandidates(e, db_institutes, lev)])

OtherCandidates_Unconditional(entity, db_values, lev) ==
    {<<entity>> \o fuzzy_matches :
        fuzzy_matches \in match_entity(entity, db_values, lev)}
OtherCandidates_MatchesOnly(entity, db_values, lev) ==
    match_entity(entity, db_values, lev)

\* the body of the loop of normalize_companies, normalize_roles,
\* normalize_cities, normalize_states, normalize_countries,
\* normalize_domains and normalize_degrees
OtherCandidates(entity, db_values, lev) ==
    {IF fuzzy_matches # <<>> THEN <<entity>> \o fuzzy_matches ELSE <<>> :
        fuzzy_matches \in match_entity(entity, db_values, lev)}

\* FuzzyMatcher.normalize_companies and its six copies
normalize_companies(inputs, db_values, lev) ==
    ResultDicts(Elements(inputs),
                [e \in Elements(inputs) |-> OtherCandidates(e, db_values, lev)])

\* ------------------------------------------------------------------------
\* Direct calls of FuzzyMatcher: the names, the vocabularies read from the
\* store and the scores the calls are made with
\* ------------------------------------------------------------------------
\* "Acme"
N_ACME == <<"A","c","m","e">>
\* "Stripe"
N_STRIPE == <<"S","t","r","i","p","e">>
\* "stripe"
N_STRIPE_LC == <<"s","t","r","i","p","e">>
\* "Strype"
N_STRYPE == <<"S","t","r","y","p","e">>
\* "MIT"
N_MIT == <<"M","I","T">>
\* "Stanford Univ"
N_STANFORD_UNIV == <<"S","t","a","n","f","o","r","d"," ","U","n","i","v">>
\* "Stanford University"
N_STANFORD == <<"S","t","a","n","f","o","r","d"," ","U","n","i","v","e","r","s","i","t","y">>
\* "--"
N_DASH == <<"-","-">>
\* ""
N_EMPTY == <<>>

\* "Acme A", "Acme B", ...: with "Acme" each has the token acme in common
Filler(i) == <<"A","c","m","e"," ">> \o <<UPPERCASE[i]>>
Fillers(n) == [i \in 1..n |-> Filler(i)]

UserInputs ==
    {<<N_ACME>>, <<N_STRIPE>>, <<N_STRYPE>>, <<N_MIT>>, <<N_STANFORD_UNIV>>,
     <<N_DASH>>, <<N_EMPTY>>, <<N_MIT, N_ACME>>, <<N_ACME, N_ACME>>}

CoreValues ==
    {<<>>, <<N_STRIPE>>, <<N_STRIPE, N_STRIPE_LC>>, <<N_STRIPE_LC, N_STRIPE>>,
     <<N_MIT, N_STANFORD>>, <<N_DASH, N_EMPTY, N_STRYPE>>}

\* what SELECT DISTINCT returns, in the order the store gives
Vocabularies ==
    {core \o Fillers(n) : core \in CoreValues, n \in 0..MaxFill} \cup
    {Fillers(n) \o core : core \in CoreValues, n \in 0..MaxFill}

Choices(db_values) == {Lower(db_values[i]) : i \in 1..Len(db_values)}
LevScores == {74, 75, 100}
Levs(db_values) ==
    {[c \in Choices(db_values) |-> s] : s \in LevScores} \cup
    {[c \in Choices(db_values) |-> IF c = x THEN 75 ELSE 74] :
        x \in Choices(db_values) \ {Lower(Filler(i)) : i \in 1..(MaxFill + 1)}}

\* every abbreviation key as written, in capitals and with a capital first
AbbreviationInputs ==
    UNION {{<<k>>, <<AllCaps(k)>>, <<<<CapitalChar(k[1])>> \o Tail(k)>>} :
              k \in AbbreviationKeys}

GeneralCalls ==
    UNION {{[op |-> "call", inputs |-> u, db_values |-> v, lev |-> l] :
               u \in UserInputs, l \in Levs(v)} : v \in Vocabularies}

\* an abbreviation input against vocabularies that hold the input itself,
\* its capitals and its canonical name, every choice scoring 100
AbbreviationCalls ==
    UNION {{[op |-> "call", inputs |-> u, db_values |-> v,
             lev |-> [c \in Choices(v) |-> 100]] :
               v \in {<<>>} \cup
                     {<<u[1], AllCaps(u[1]), Abbreviation(Lower(u[1]))>> \o Fillers(n) :
                         n \in {0, MaxFill}}} : u \in AbbreviationInputs}

Calls == GeneralCalls \cup AbbreviationCalls

InitFuzzy ==
    /\ PipelineInit
    /\ LazyInit
    /\ thr = [t \in Threads |-> "idle"]
    /\ arg \in Calls
    /\ ret = NoCall

fuzzyFrame == <<pc, reqs, reqVars, storeVars, thr, arg, lazyVars>>

\* matcher.match_entity(inputs[0], db_values)
call_match_entity ==
    /\ ret.op = "none"
    /\ \E l \in match_entity(arg.inputs[1], arg.db_values, arg.lev) :
         ret' = [op |-> "match_entity", value |-> l]
    /\ UNCHANGED fuzzyFrame

\* matcher.normalize_institutes(inputs) with db_values read for "institutes"
call_normalize_institutes ==
    /\ ret.op = "none"
    /\ \E d \in normalize_institutes(arg.inputs, arg.db_values, arg.lev) :
         ret' = [op |-> "normalize_institutes", value |-> d,
                 fuzzy_calls |-> FuzzyCalls(arg.inputs)]
    /\ UNCHANGED fuzzyFrame

\* matcher.normalize_companies(inputs) (likewise roles, cities, states,
\* countries, domains, degrees) with db_values read for that category
call_normalize_companies ==
    /\ ret.op = "none"
    /\ \E d \in normalize_companies(arg.inputs, arg.db_values, arg.lev) :
         ret' = [op |-> "normalize_companies", value |-> d]
    /\ UNCHANGED fuzzyFrame

NextFuzzy ==
    \/ call_match_entity
    \/ call_normalize_institutes
    \/ call_normalize_companies

SpecFuzzy == InitFuzzy /\ [][NextFuzzy]_vars

\* ------------------------------------------------------------------------
\* EntityExtractor.extract_entities on text
\* ------------------------------------------------------------------------
\* "Who worked at Amazon in 2015?"
X_AMAZON_2015 == <<"W","h","o"," ","w","o","r","k","e","d"," ","a","t"," ","A","m","a","z","o","n"," ","i","n"," ","2","0","1","5","?">>
\* "Who studied at IIT B?"
X_IIT_B == <<"W","h","o"," ","s","t","u","d","i","e","d"," ","a","t"," ","I","I","T"," ","B","?">>
\* "From 2015 to 2015 at MIT"
X_TWICE == <<"F","r","o","m"," ","2","0","1","5"," ","t","o"," ","2","0","1","5"," ","a","t"," ","M","I","T">>
\* "a2015 20155 1999_ 2000-2001 1899"
X_BOUNDS == <<"a","2","0","1","5"," ","2","0","1","5","5"," ","1","9","9","9","_"," ","2","0","0","0","-","2","0","0","1"," ","1","8","9","9">>
\* "Any founder in Bangalore?"
X_FOUNDER == <<"A","n","y"," ","f","o","u","n","d","e","r"," ","i","n"," ","B","a","n","g","a","l","o","r","e","?">>
\* "hi"
X_NONE == <<"h","i">>
\* "Amazon Inc."
V_AMAZON_INC == <<"A","m","a","z","o","n"," ","I","n","c",".">>
\* "Amazon"
V_AMAZON == <<"A","m","a","z","o","n">>
\* "amazon"
V_AMAZON_LC == <<"a","m","a","z","o","n">>
\* "mit"
V_MIT_LC == <<"m","i","t">>
\* "IIT Bombay"
V_IIT_BOMBAY == <<"I","I","T"," ","B","o","m","b","a","y">>
\* "Founder"
V_FOUNDER == <<"F","o","u","n","d","e","r">>
\* "Bangalore"
V_BANGALORE == <<"B","a","n","g","a","l","o","r","e">>
\* "iit b"
K_IIT_B == <<"i","i","t"," ","b">>

\* db_context.get(k, []): {} is what _get_db_context returns on an exception
CtxGet(db_context, k) == IF k \in DOMAIN db_context THEN db_context[k] ELSE <<>>

Found_NoEmptyTest(query_lower, values) ==
    SelectSeq(values, LAMBDA v : Contains(query_lower, Lower(v)))

\* "for x in db_context.get(k, []): if x and x.lower() in query_lower"
Found(query_lower, values) ==
    SelectSeq(values, LAMBDA v : v # <<>> /\ Contains(query_lower, Lower(v)))

\* "for abbrev in INSTITUTE_ABBREVIATIONS.keys(): if abbrev in query_lower"
FoundAbbreviations(query_lower) ==
    SelectSeq([i \in 1..Len(AbbreviationTable) |-> AbbreviationTable[i].k],
              LAMBDA a : Contains(query_lower, a))

\* the regular expression \b(19\d{2}|20\d{2})\b of re.findall
IsWordChar(c) == IsAlnum(c) \/ c = "_"
YearAt(q, i) ==
    /\ i + 3 <= Len(q)
    /\ <<q[i], q[i + 1]>> \in {<<"1", "9">>, <<"2", "0">>}
    /\ q[i + 2] \in DIGITS
    /\ q[i + 3] \in DIGITS
    /\ (i = 1 \/ ~IsWordChar(q[i - 1]))
    /\ (i + 3 = Len(q) \/ ~IsWordChar(q[i + 4]))

\* re.findall: scan from the left, continue after each match
RECURSIVE FindAll(_, _)
FindAll(q, i) ==
    IF i > Len(q) THEN <<>>
    ELSE IF YearAt(q, i)
         THEN <<SubSeq(q, i, i + 3)>> \o FindAll(q, i + 4)
         ELSE FindAll(q, i + 1)

\* int(y) of a string of digits
DigitValue(c) ==
    CASE c = "0" -> 0 [] c = "1" -> 1 [] c = "2" -> 2 [] c = "3" -> 3
      [] c = "4" -> 4 [] c = "5" -> 5 [] c = "6" -> 6 [] c = "7" -> 7
      [] c = "8" -> 8 [] c = "9" -> 9
RECURSIVE ToInt(_)
ToInt(y) ==
    IF y = <<>> THEN 0
    ELSE 10 * ToInt(SubSeq(y, 1, Len(y) - 1)) + DigitValue(y[Len(y)])

ExtractYears_Deduped(text) ==
    Dedupe([i \in 1..Len(FindAll(text, 1)) |-> ToInt(FindAll(text, 1)[i])])

\* entities["years"] = [int(y) for y in year_matches]
ExtractYears(text) ==
    [i \in 1..Len(FindAll(text, 1)) |-> ToInt(FindAll(text, 1)[i])]

\* EntityExtractor.extract_entities: the dicts it may return (the eight
\* category lists go through list(set(...)), years does not)
extract_entities_text(text, db_context) ==
    LET query_lower == Lower(text)
        found(k) == Found(query_lower, CtxGet(db_context, k))
    IN [companies : ListOfSet(found("companies")),
        roles : ListOfSet(found("roles")),
        cities : ListOfSet(found("cities")),
        states : ListOfSet(found("states")),
        countries : ListOfSet(found("countries")),
        institutes : ListOfSet(FoundAbbreviations(query_lower) \o found("institutes")),
        degrees : ListOfSet(found("degrees")),
        domains : ListOfSet(found("domains")),
        years : {ExtractYears(text)}]

\* the texts and the vocabularies extract_entities is called with
ExtractQueries == {X_AMAZON_2015, X_IIT_B, X_TWICE, X_BOUNDS, X_FOUNDER, X_NONE}
CompanyValues ==
    {<<>>, <<V_AMAZON_INC>>, <<V_AMAZON_INC, V_AMAZON>>,
     <<V_AMAZON_LC, N_EMPTY, V_AMAZON>>, <<N_STRIPE>>}
InstituteValues == {<<>>, <<V_MIT_LC>>, <<V_IIT_BOMBAY, N_MIT>>}
RoleValues == {<<>>, <<N_EMPTY>>, <<V_FOUNDER, N_EMPTY>>}
CityValues == {<<>>, <<V_BANGALORE>>}

\* what _get_db_context returns: the eight lists, or {} when it caught an
\* exception
DbContexts ==
    {EmptyDict} \cup
    {[k \in Categories |->
        CASE k = "companies" -> co
          [] k = "institutes" -> ins
          [] k = "roles" -> ro
          [] k = "cities" -> ci
          [] OTHER -> <<>>] :
        co \in CompanyValues, ins \in InstituteValues, ro \in RoleValues,
        ci \in CityValues}

InitExtract ==
    /\ PipelineInit
    /\ LazyInit
    /\ thr = [t \in Threads |-> "idle"]
    /\ arg \in [op : {"call"}, query : ExtractQueries, db_context : DbContexts]
    /\ ret = NoCall

\* extractor.extract_entities(query)
call_extract_entities ==
    /\ ret.op = "none"
    /\ \E d \in extract_entities_text(arg.query, arg.db_context) :
         ret' = [op |-> "extract_entities", value |-> d]
    /\ UNCHANGED <<pc, reqs, reqVars, storeVars, thr, arg, lazyVars>>

NextExtract == call_extract_entities

SpecExtract == InitExtract /\ [][NextExtract]_vars

\* ------------------------------------------------------------------------
\* Properties
\* ------------------------------------------------------------------------
Last(seq) == seq[Len(seq)]
Count(seq, x) == Cardinality({i \in 1..Len(seq) : seq[i] = x})
Returned == pc = "done"
AfterStages == pc \in {"log", "respond", "done"}

\* which stage ended the request, read off the values the stages returned
StageFailure ==
    IF sql.isNone THEN "synthesize"
    ELSE IF validated # sql THEN "validate"
    ELSE IF results.isNone THEN "execute"
    ELSE "none"

\* C1: generate_content is called at most MAX_RETRIES times per request; when
\* all the calls fail (raise, empty, too short, no SELECT) it was called
\* exactly MAX_RETRIES times, generate_sql returns None and no exception
\* leaves generate_sql.
C1_BoundedRetry ==
    /\ attempts <= MAX_RETRIES
    /\ Len(genLog) <= MAX_RETRIES
    /\ (pc = "raised" => Last(trace) # "synthesize")
    /\ (pc = "generate" /\ ~CanAttempt(retry_count)) =>
          attempts = MAX_RETRIES /\ Count(genLog, "accepted") = 0
    /\ (pc = "log" /\ Len(genLog) > 0 /\ Last(genLog) # "accepted") =>
          /\ attempts = MAX_RETRIES
          /\ Len(genLog) = MAX_RETRIES
          /\ sql = None
    /\ (AfterStages /\ sql = None) => attempts = MAX_RETRIES

C1_Witness ==
    /\ pc = "log"
    /\ genLog = <<"raise", "rejected", "rejected">>
    /\ lastOut.text = T_SHORT
    /\ attempts = 3
    /\ sql = None

\* C2: generate_sql returns the fence-stripped text of the first attempt
\* whose output passes the shape check and makes no attempt after it; with
\* two raising calls and a valid third one it returns the third text after
\* exactly 3 attempts.
C2_FirstValidReturned ==
    /\ (pc = "generate" /\ attempts > 0) =>
          /\ lastOut.kind = "raise" \/ ~ShapeOk(CleanSql(lastOut.text))
          /\ Count(genLog, "accepted") = 0
          /\ attempts = Len(genLog)
    /\ pc = "validate" =>
          /\ lastOut.kind = "text"
          /\ ShapeOk(CleanSql(lastOut.text))
          /\ sql = Some(CleanSql(lastOut.text))
          /\ ~Contains(sql.val, FENCE)
          /\ lastOut.text \in {T_FENCED, T_SPLIT, T_PLAIN} => sql = Some(T_PLAIN)
          /\ attempts = Len(genLog)
          /\ Last(genLog) = "accepted"
          /\ Count(genLog, "accepted") = 1
          /\ (genLog[1] = "raise" /\ Len(genLog) > 1 /\ genLog[2] = "raise") =>
                attempts = 3 /\ Len(genLog) = 3
    /\ (pc \notin {"generate", "raised"} /\ ~sql.isNone) =>
          attempts = retry_count + 1

C2_Witness ==
    /\ pc = "validate"
    /\ genLog = <<"raise", "raise", "accepted">>
    /\ lastOut.text = T_FENCED
    /\ sql = Some(T_PLAIN)
    /\ attempts = 3

\* C3: a text returned by generate_sql is non-empty, has at least 10
\* characters once the fence markers are stripped and contains SELECT in
\* some letter case; nothing else reaches validate_sql, execute_sql, the log
\* or the response.
TextPasses(t) ==
    /\ t # <<>>
    /\ Len(t) >= 10
    /\ \E i \in 1..(Len(t) - 5) :
         /\ t[i] \in {"S", "s"}
         /\ t[i + 1] \in {"E", "e"}
         /\ t[i + 2] \in {"L", "l"}
         /\ t[i + 3] \in {"E", "e"}
         /\ t[i + 4] \in {"C", "c"}
         /\ t[i + 5] \in {"T", "t"}

C3_ReturnedTextShaped ==
    /\ ~sql.isNone => TextPasses(sql.val)
    /\ pc \in {"validate", "execute"} => ~sql.isNone
    /\ ~logArgs.sql.isNone => TextPasses(logArgs.sql.val)
    /\ (Returned /\ ~response.generated_sql.isNone) =>
          TextPasses(response.generated_sql.val)

C3_Witness ==
    /\ pc = "validate"
    /\ lastOut.text = T_LOWER
    /\ sql = Some(T_LOWER)
    /\ Len(sql.val) = 10

\* C4: when a stage failed (synthesis, validation or execution) the response
\* has success = false, results_count = 0, results = [] and an error_message
\* that is one of the three defined messages.
C4_FailureShape ==
    (Returned /\ StageFailure # "none") =>
        /\ response.success = FALSE
        /\ response.results_count = 0
        /\ response.results = <<>>
        /\ response.error_message # NULL
        /\ response.error_message \in {MSG_GENERATE, MSG_INVALID, MSG_EXECUTE}

C4_Witness ==
    /\ Returned
    /\ StageFailure = "validate"
    /\ query = Q_STRIPE
    /\ extracted["companies"] = {"Stripe"}
    /\ response.success = FALSE
    /\ response.error_message = MSG_INVALID

\* C5: every run of process_query calls _log_query exactly once before it
\* returns, whichever stage failed, and commits at most one search_queries
\* row for the request.
C5_LoggedOnce ==
    /\ logCalls <= 1
    /\ logCommits <= logCalls
    /\ Len(search_queries) <= reqs
    /\ pc \in {"respond", "done"} => logCalls = 1
    /\ pc \in {"extract", "normalize", "generate", "validate", "execute", "log"} =>
          logCalls = 0
    /\ Count(trace, "log") = logCalls

C5_Witness ==
    /\ Returned
    /\ logCalls = 1
    /\ logCommits = 1
    /\ Len(search_queries) = 1
    /\ StageFailure = "synthesize"

\* C6: a failing _log_query changes nothing of the outcome: the response has
\* the success flag, rows, row count, generated query and error message that
\* the stages determined, whether or not the log was committed, and no
\* exception leaves process_query from the log step.
ExpectedMessage ==
    CASE StageFailure = "synthesize" -> MSG_GENERATE
      [] StageFailure = "validate" -> MSG_INVALID
      [] StageFailure = "execute" -> MSG_EXECUTE
      [] OTHER -> NULL

C6_LogFailureIsolated ==
    /\ (pc = "raised" => Last(trace) # "log")
    /\ (logCalls = 1 => pc \in {"respond", "done"} /\ ~escaped)
    /\ Returned =>
          /\ response.success = (StageFailure = "none")
          /\ response.error_message = ExpectedMessage
          /\ response.results =
                (IF StageFailure = "none" THEN results.val ELSE <<>>)
          /\ response.results_count =
                (IF StageFailure = "none" THEN Len(results.val) ELSE 0)
          /\ response.generated_sql =
                (IF StageFailure = "none" THEN sql ELSE None)

C6_Witness ==
    /\ Returned
    /\ logCalls = 1
    /\ logCommits = 0
    /\ search_queries = <<>>
    /\ checkedOut > 0
    /\ response.success = TRUE
    /\ response.results_count = 3

\* C7: every stage that touches the store returns its connection on every
\* exit path, so no connection is checked out between stages or after a
\* completed process_query.
C7_AllReleased == checkedOut = 0

\* C8: the stages of one run occur in the order extract, normalize,
\* synthesize, validate, execute, log, terminal without going back;
\* validate_sql runs only on a returned query, execute_sql only on the text
\* validate_sql accepted, every stage but the synthesis attempt runs at most
\* once, and the response is produced right after the log step.
StageRank(st) ==
    CASE st = "extract" -> 1
      [] st = "normalize" -> 2
      [] st = "synthesize" -> 3
      [] st = "validate" -> 4
      [] st = "execute" -> 5
      [] st = "log" -> 6
      [] st = "terminal" -> 7

C8_StageOrder ==
    /\ \A i \in 1..Len(trace) : \A j \in (i + 1)..Len(trace) :
          /\ StageRank(trace[i]) <= StageRank(trace[j])
          /\ StageRank(trace[i]) = StageRank(trace[j]) => trace[i] = "synthesize"
    /\ Len(trace) >= 1 => trace[1] = "extract"
    /\ Len(trace) >= 2 => trace[2] = "normalize"
    /\ Len(trace) >= 3 => trace[3] = "synthesize"
    /\ \A i \in 2..Len(trace) :
          /\ trace[i] = "validate" => trace[i - 1] = "synthesize" /\ ~sql.isNone
          /\ trace[i] = "execute" =>
                trace[i - 1] = "validate" /\ ~sql.isNone /\ validated = sql
          /\ trace[i] = "terminal" => trace[i - 1] = "log"
    /\ pc = "execute" => validated = sql /\ ~sql.isNone
    /\ Returned => Last(trace) = "terminal"
    /\ Count(trace, "synthesize") = attempts

C8_Witness ==
    /\ Returned
    /\ trace = <<"extract", "normalize", "synthesize", "synthesize",
                 "validate", "execute", "log", "terminal">>

\* C9: each stage failure has its own message: generate_sql returning None
\* gives "Failed to generate SQL query", validate_sql returning False gives
\* "Generated SQL is invalid", execute_sql returning None rows gives
\* "SQL execution failed"; the three messages differ.
C9_FailureMessages ==
    /\ Cardinality({MSG_GENERATE, MSG_INVALID, MSG_EXECUTE}) = 3
    /\ Returned =>
          /\ sql.isNone <=> response.error_message = MSG_GENERATE
          /\ (~sql.isNone /\ validated.isNone) <=>
                response.error_message = MSG_INVALID
          /\ (~validated.isNone /\ results.isNone) <=>
                response.error_message = MSG_EXECUTE
          /\ ~results.isNone <=> response.error_message = NULL

C9_Witness ==
    /\ Returned
    /\ sql.isNone
    /\ attempts = 3
    /\ response.error_message = MSG_GENERATE
    /\ response.success = FALSE

\* C10: the search_queries row of a failed request matches the failure: a
\* null generated_sql on synthesis failure, the rejected text and
\* results_count 0 on validation failure, results_count 0 and the time
\* execute_sql measured on execution failure; its error_message is the one of
\* the response, and _log_query ran before process_query returned.
LoggedRow == Last(search_queries)

C10_FailureLogged ==
    /\ (AfterStages /\ StageFailure # "none") =>
          /\ logArgs.err = ExpectedMessage
          /\ logArgs.results.isNone
          /\ StageFailure = "synthesize" => logArgs.sql = None
          /\ StageFailure = "validate" => logArgs.sql = sql /\ ~sql.isNone
          /\ StageFailure = "execute" =>
                logArgs.sql = sql /\ logArgs.ms = execution_time_ms
    /\ (pc \in {"respond", "done"} /\ StageFailure # "none" /\ logCommits = 1) =>
          /\ LoggedRow.original_query = query.text
          /\ LoggedRow.error_message = ExpectedMessage
          /\ LoggedRow.results_count = 0
          /\ StageFailure = "synthesize" => LoggedRow.generated_sql = None
          /\ StageFailure = "validate" =>
                LoggedRow.generated_sql = sql /\ ~sql.isNone
          /\ StageFailure = "execute" =>
                /\ LoggedRow.generated_sql = sql
                /\ LoggedRow.execution_time_ms = execution_time_ms
          /\ Returned => LoggedRow.error_message = response.error_message
    /\ (Returned /\ StageFailure # "none") =>
          /\ logCalls = 1
          /\ SubSeq(trace, Len(trace) - 1, Len(trace)) = <<"log", "terminal">>

C10_Witness ==
    /\ Returned
    /\ StageFailure = "execute"
    /\ logCommits = 1
    /\ execution_time_ms > 0
    /\ LoggedRow.execution_time_ms = execution_time_ms
    /\ LoggedRow.generated_sql = Some(T_PLAIN)
    /\ LoggedRow.error_message = MSG_EXECUTE

\* C11: on the success path _log_query is called once with the generated
\* query, the measured time, no error and the rows; the committed
\* search_queries row carries that query, a results_count equal to the number
\* of rows of the response, that time and a null error_message, and
\* query_results gets one row per returned row that has a member_id, in order.
WithMember(rows) == SelectSeq(rows, LAMBDA r : r.member_id # NULL)
LinkedTo(id) == SelectSeq(query_results, LAMBDA r : r.query_id = id)

C11_SuccessLogged ==
    /\ (AfterStages /\ StageFailure = "none") =>
          logArgs = [sql |-> sql, ms |-> execution_time_ms, err |-> NULL,
                     results |-> results]
    /\ (pc \in {"respond", "done"} /\ StageFailure = "none") => logCalls = 1
    /\ (pc \in {"respond", "done"} /\ StageFailure = "none" /\ logCommits = 1) =>
          /\ LoggedRow.original_query = query.text
          /\ LoggedRow.generated_sql = sql
          /\ LoggedRow.results_count = Len(results.val)
          /\ LoggedRow.execution_time_ms = execution_time_ms
          /\ LoggedRow.error_message = NULL
          /\ LinkedTo(LoggedRow.id) =
                [i \in 1..Len(WithMember(results.val)) |->
                    [query_id |-> LoggedRow.id,
                     member_id |-> WithMember(results.val)[i].member_id]]
          /\ Returned =>
                /\ response.results_count = LoggedRow.results_count
                /\ response.generated_sql = LoggedRow.generated_sql
                /\ Len(response.results) = LoggedRow.results_count

C11_Witness ==
    /\ Returned
    /\ response.success = TRUE
    /\ logCommits = 1
    /\ results = Some(<<ROW_M1, ROW_ANON, ROW_M2>>)
    /\ LoggedRow.results_count = 3
    /\ LoggedRow.execution_time_ms = 1
    /\ Len(LinkedTo(LoggedRow.id)) = 2

\* C12: every response process_query returns has the same ten keys; on a
\* failure the keys no stage filled hold {}, {}, None, [], 0, 0, 0, and on
\* success error_message is None.
ResponseKeys ==
    {"success", "original_query", "extracted_entities", "normalized_entities",
     "generated_sql", "results", "results_count", "execution_time_ms",
     "total_time_ms", "error_message"}

C12_ResponseShape ==
    /\ Cardinality(ResponseKeys) = 10
    /\ Returned => DOMAIN response = ResponseKeys
    /\ (Returned /\ StageFailure # "none") =>
          /\ response.success = FALSE
          /\ response.original_query = query.text
          /\ response.extracted_entities = EmptyDict
          /\ response.normalized_entities = EmptyDict
          /\ response.generated_sql = None
          /\ response.results = <<>>
          /\ response.results_count = 0
          /\ response.execution_time_ms = 0
          /\ response.total_time_ms = 0
    /\ (Returned /\ StageFailure = "none") =>
          /\ response.success = TRUE
          /\ response.original_query = query.text
          /\ response.error_message = NULL

C12_Witness ==
    /\ Returned
    /\ StageFailure = "execute"
    /\ execution_time_ms > 0
    /\ DOMAIN response = ResponseKeys
    /\ response.generated_sql = None
    /\ response.execution_time_ms = 0
    /\ response.error_message = MSG_EXECUTE

N_MIT_FULL == <<"M","a","s","s","a","c","h","u","s","e","t","t","s"," ","I","n","s","t","i","t","u","t","e"," ","o","f"," ","T","e","c","h","n","o","l","o","g","y">>

C14_AbbreviationFirst ==
    ret.op = "normalize_institutes" =>
        /\ \A e \in Elements(arg.inputs) :
              Lower(e) \in AbbreviationKeys =>
                 /\ e \in DOMAIN ret.value
                 /\ ret.value[e] = <<Abbreviation(Lower(e))>>
                 /\ e \notin Elements(ret.fuzzy_calls)
        /\ (Len(arg.inputs) = 1 /\ Lower(arg.inputs[1]) \in AbbreviationKeys) =>
              /\ ret.value = (arg.inputs[1] :> <<Abbreviation(Lower(arg.inputs[1]))>>)
              /\ ret.fuzzy_calls = <<>>
        /\ (arg.inputs = <<N_MIT>> \/ arg.inputs = <<Lower(N_MIT)>>) =>
              ret.value[arg.inputs[1]] = <<N_MIT_FULL>>

C14_Witness ==
    /\ ret.op = "normalize_institutes"
    /\ arg.inputs = <<N_MIT>>
    /\ N_MIT \in Elements(arg.db_values)
    /\ Len(arg.db_values) > EXTRACT_LIMIT
    /\ \A c \in DOMAIN arg.lev : arg.lev[c] = 100
    /\ ret.value = (N_MIT :> <<N_MIT_FULL>>)

\* C15: in every category, the list stored for an input that is not an
\* abbreviation key starts with the input itself.
C15_OriginalFirst ==
    ret.op \in {"normalize_institutes", "normalize_companies"} =>
        \A e \in DOMAIN ret.value :
            Lower(e) \notin AbbreviationKeys => ret.value[e][1] = e

\* C16 (as claimed): an input that is a value of the vocabulary gets a list
\* that contains it, in every category, an institute whose lower-cased form
\* is an abbreviation key included.
C16_Idempotent ==
    ret.op \in {"normalize_institutes", "normalize_companies"} =>
        \A e \in Elements(arg.inputs) :
            e \in Elements(arg.db_values) =>
                e \in DOMAIN ret.value /\ e \in Elements(ret.value[e])

\* C16 (amended): a non-empty input that is a value of the vocabulary gets a
\* list that contains it, except in normalize_institutes when its lower-cased
\* form is an abbreviation key: then the list is the canonical name alone.
C16_IdempotentOutsideTable ==
    ret.op \in {"normalize_institutes", "normalize_companies"} =>
        \A e \in Elements(arg.inputs) :
            (e # <<>> /\ e \in Elements(arg.db_values)) =>
                IF ret.op = "normalize_institutes" /\ Lower(e) \in AbbreviationKeys
                THEN /\ ret.value[e] = <<Abbreviation(Lower(e))>>
                     /\ (e \in Elements(ret.value[e]) <=>
                            e = Abbreviation(Lower(e)))
                ELSE e \in DOMAIN ret.value /\ e \in Elements(ret.value[e])

C16_Witness ==
    /\ ret.op = "normalize_companies"
    /\ arg.inputs = <<N_STRIPE>>
    /\ arg.db_values = <<N_STRIPE, N_STRIPE_LC>>
    /\ ret.value = (N_STRIPE :> <<N_STRIPE, N_STRIPE_LC>>)

\* the score match_entity's call of process.extract gives the value v
ScoreOf(v) ==
    TokenSetRatio(Lower(arg.inputs[1]), Lower(v), arg.lev[Lower(v)])

\* v is in the list match_entity returned, in some letter case
InResult(v) == \E w \in Elements(ret.value) : Lower(w) = Lower(v)

\* C17: match_entity returns every value of the vocabulary whose score is at
\* or above the threshold, however many there are (more than 10 included).
C17_AllQualifyingReturned ==
    (ret.op = "match_entity" /\ arg.inputs[1] # <<>>) =>
        \A v \in Elements(arg.db_values) :
            (v # <<>> /\ ScoreOf(v) >= SIMILARITY_THRESHOLD) => InResult(v)

\* C18: match_entity returns a value that scores exactly 75, and returns no
\* value that scores below 75 (74 in particular).
C18_ThresholdBoundary ==
    (ret.op = "match_entity" /\ arg.inputs[1] # <<>>) =>
        \A v \in Elements(arg.db_values) :
            v # <<>> =>
                /\ ScoreOf(v) = 75 => InResult(v)
                /\ ScoreOf(v) < 75 => ~InResult(v)

\* the values of category k that _get_db_context returned and whose
\* lower-cased form occurs in the lower-cased query
Literal(k) ==
    {v \in Elements(CtxGet(arg.db_context, k)) :
        Contains(Lower(arg.query), Lower(v))}
KeysInQuery == {a \in AbbreviationKeys : Contains(Lower(arg.query), a)}
NoRepeats(seq) ==
    \A i \in 1..Len(seq) : \A j \in 1..Len(seq) : i # j => seq[i] # seq[j]

YearDigits ==
    {<<"1", "9", c, d>> : c \in DIGITS, d \in DIGITS} \cup
    {<<"2", "0", c, d>> : c \in DIGITS, d \in DIGITS}
YearStarts ==
    {i \in 1..(Len(arg.query) - 3) :
        /\ SubSeq(arg.query, i, i + 3) \in YearDigits
        /\ (i > 1 => ~IsWordChar(arg.query[i - 1]))
        /\ (i + 4 <= Len(arg.query) => ~IsWordChar(arg.query[i + 4]))}
NthYearStart(n) ==
    CHOOSE i \in YearStarts : Cardinality({j \in YearStarts : j < i}) = n - 1

\* C20: years holds one integer per year token of the query, in the order of
\* the tokens and with repetitions kept ("2015 ... 2015" gives [2015, 2015]);
\* the eight other lists hold no value twice.
C20_YearsInOrder ==
    ret.op = "extract_entities" =>
        /\ Len(ret.value.years) = Cardinality(YearStarts)
        /\ \A n \in 1..Len(ret.value.years) :
              /\ ret.value.years[n] \in 1900..2099
              /\ ret.value.years[n] =
                    1000 * DigitValue(arg.query[NthYearStart(n)])
                    + 100 * DigitValue(arg.query[NthYearStart(n) + 1])
                    + 10 * DigitValue(arg.query[NthYearStart(n) + 2])
                    + DigitValue(arg.query[NthYearStart(n) + 3])
        /\ arg.query = X_TWICE => ret.value.years = <<2015, 2015>>
        /\ arg.query = X_BOUNDS => ret.value.years = <<2000, 2001>>
        /\ \A k \in Categories : NoRepeats(ret.value[k])

C20_Witness ==
    /\ ret.op = "extract_entities"
    /\ arg.query = X_TWICE
    /\ CtxGet(arg.db_context, "institutes") = <<V_MIT_LC>>
    /\ ret.value.years = <<2015, 2015>>
    /\ ret.value.institutes = <<V_MIT_LC>>

\* ------------------------------------------------------------------------
\* C21: when the vocabulary read of extract_entities fails, whether no
\* connection could be taken or a read raised after it was taken, the
\* extraction still returns: it holds nothing from the vocabulary, only the
\* abbreviation keys and the years found in the text; and both
\* extract_entities and normalize_all hand over to the next stage without an
\* exception leaving process_query.
\* ------------------------------------------------------------------------
OnlyKeysAndYears(q) ==
    [k \in EntityKeys |->
        IF k = "years" THEN q.years
        ELSE IF k = "institutes" THEN q.abbrevs ELSE {}]

C21_VocabularyFailureDegrades ==
    [][/\ pc = "extract" =>
            /\ pc' = "normalize"
            /\ ~escaped'
            /\ stageOutcome' \in {"fail", "noconn"} =>
                   extracted' = OnlyKeysAndYears(query)
       /\ pc = "normalize" => (pc' = "generate" /\ ~escaped')]_vars

\* a read raised while the query names a company and a city of the store
C21_Witness ==
    /\ pc = "generate"
    /\ query = Q_STRIPE
    /\ query.literal["companies"] = {"Stripe"}
    /\ checkedOut >= 1
    /\ extracted = OnlyKeysAndYears(Q_STRIPE)
    /\ extracted["companies"] = {}
    /\ extracted["years"] = <<2015>>
    /\ DOMAIN normalized = {"years"}
    /\ ~escaped

\* ------------------------------------------------------------------------
\* C22: validate_sql and execute_sql report every store failure by value.
\* Whatever fails (no connection, the statement, a statement without a result
\* set), no exception leaves them: validate_sql returns False, so the
\* pipeline logs "Generated SQL is invalid"; execute_sql returns None for the
\* rows together with the milliseconds elapsed, so the pipeline logs
\* "SQL execution failed" with that time.
\* ------------------------------------------------------------------------
C22_FailureByValue ==
    [][/\ pc = "validate" =>
            /\ ~escaped'
            /\ pc' \in {"execute", "log"}
            /\ stageOutcome' # "ok" =>
                   /\ pc' = "log"
                   /\ validated' = None
                   /\ logArgs'.err = MSG_INVALID
       /\ pc = "execute" =>
            /\ ~escaped'
            /\ pc' = "log"
            /\ execution_time_ms' \in 0..MaxMs
            /\ stageOutcome' # "ok" =>
                   /\ results' = None
                   /\ logArgs'.err = MSG_EXECUTE
                   /\ logArgs'.ms = execution_time_ms']_vars

\* the statement ran but had no result set; a millisecond had passed
C22_Witness ==
    /\ pc = "log"
    /\ stageOutcome = "nodesc"
    /\ results = None
    /\ execution_time_ms = 1
    /\ logArgs.err = MSG_EXECUTE
    /\ ~escaped

\* ------------------------------------------------------------------------
\* C23: no candidate list of a normalization map holds the same string
\* twice, whichever normalize_ method built it, also when match_entity
\* returns the input itself.  normalize_companies(["Stripe"]) against the
\* vocabulary ["Stripe"] stores ["Stripe", "Stripe"].
\* ------------------------------------------------------------------------
C23_Deduplicated ==
    ret.op \in {"normalize_institutes", "normalize_companies"} =>
        \A e \in DOMAIN ret.value : NoRepeats(ret.value[e])

\* ------------------------------------------------------------------------
\* C24: normalize_companies (and its six copies) keeps an input exactly when
\* some value of the vocabulary scores at or above the threshold against it.
\* An input without such a value is not a key of the map; a key's list is
\* the input followed by at least one matched value, so it is never empty
\* and never the input alone.
\* ------------------------------------------------------------------------
ScoreFor(e, v) == TokenSetRatio(Lower(e), Lower(v), arg.lev[Lower(v)])
HasMatch(e) ==
    /\ e # <<>>
    /\ \E v \in Elements(arg.db_values) :
          v # <<>> /\ ScoreFor(e, v) >= SIMILARITY_THRESHOLD

C24_OmittedWithoutMatch ==
    ret.op = "normalize_companies" =>
        /\ DOMAIN ret.value \subseteq Elements(arg.inputs)
        /\ \A e \in Elements(arg.inputs) :
              /\ e \in DOMAIN ret.value <=> HasMatch(e)
              /\ e \in DOMAIN ret.value =>
                    /\ Len(ret.value[e]) >= 2
                    /\ Head(ret.value[e]) = e
                    /\ \A i \in 2..Len(ret.value[e]) :
                          /\ ret.value[e][i] \in Elements(arg.db_values)
                          /\ ScoreFor(e, ret.value[e][i]) >= SIMILARITY_THRESHOLD

\* "MIT" matches nothing among the companies, "Acme" does
C24_Witness ==
    /\ ret.op = "normalize_companies"
    /\ arg.inputs = <<N_MIT, N_ACME>>
    /\ HasMatch(N_ACME)
    /\ ~HasMatch(N_MIT)
    /\ DOMAIN ret.value = {N_ACME}
    /\ Len(ret.value[N_ACME]) >= 2

\* ------------------------------------------------------------------------
\* C25: the hints of normalize_query hold one segment for every (category,
\* original) pair of the normalized entities, years included, and they are
\* the "No entities found" text exactly when extract_entities found nothing.
\* The query "Who worked at Stripe in Bangalore in 2015?" with the vocabulary
\* read failing finds the year 2015 and still gets "No entities found".
\* ------------------------------------------------------------------------
NormalizedPairs ==
    UNION {{<<k, e>> : e \in DOMAIN normalized[k]} : k \in DOMAIN normalized}

C25_HintsCoverAllEntities ==
    pc \in {"generate", "validate", "execute", "log", "respond", "done"} =>
        /\ hints = NO_ENTITIES_FOUND <=>
              \A k \in EntityKeys : ~Populated(extracted, k)
        /\ hints # NO_ENTITIES_FOUND =>
              /\ Len(hints) = Cardinality(NormalizedPairs)
              /\ \A p \in NormalizedPairs :
                    \E i \in 1..Len(hints) :
                        /\ hints[i].title = Title(p[1])
                        /\ hints[i].original = p[2]

\* ------------------------------------------------------------------------
\* C26: a query that ran and fetched no rows succeeds.  When execute_sql
\* returned the empty list, process_query answers success with results [],
\* results_count 0 and no error message, and the row it logs has
\* results_count 0, no error message and no query_results rows; the answer
\* "SQL execution failed" is given exactly when execute_sql returned None.
\* ------------------------------------------------------------------------
Executed == \E i \in 1..Len(trace) : trace[i] = "execute"

C26_EmptyIsSuccess ==
    /\ (AfterStages /\ Executed /\ results = Some(<<>>)) =>
          /\ logArgs.err = NULL
          /\ logArgs.results = Some(<<>>)
          /\ Linkage(query_seq + 1, logArgs) = <<>>
    /\ (pc \in {"respond", "done"} /\ Executed /\ results = Some(<<>>)
           /\ logCommits = 1) =>
          /\ LoggedRow.results_count = 0
          /\ LoggedRow.error_message = NULL
          /\ LoggedRow.generated_sql = sql
          /\ LinkedTo(LoggedRow.id) = <<>>
    /\ (Returned /\ Executed /\ results = Some(<<>>)) =>
          /\ response.success = TRUE
          /\ response.results = <<>>
          /\ response.results_count = 0
          /\ response.error_message = NULL
    /\ Returned => (response.error_message = MSG_EXECUTE <=>
                       (Executed /\ results = None))

C26_Witness ==
    /\ Returned
    /\ Executed
    /\ stageOutcome = "none"
    /\ results = Some(<<>>)
    /\ response.success = TRUE
    /\ response.results = <<>>
    /\ logCommits = 1
    /\ LoggedRow.results_count = 0
    /\ LinkedTo(LoggedRow.id) = <<>>

\* ------------------------------------------------------------------------
\* C27 (as claimed): every failure response holds {} for the extracted and
\* the normalized entities, None for the generated query and 0 for both
\* times, whatever the stages had computed; and after a validation or an
\* execution failure the generated text and the elapsed time that were
\* logged both differ from the values in the response.  After a validation
\* failure the logged time is 0, as in the response.
\* ------------------------------------------------------------------------
Discarded ==
    /\ response.success = FALSE
    /\ response.extracted_entities = EmptyDict
    /\ response.normalized_entities = EmptyDict
    /\ response.generated_sql = None
    /\ response.execution_time_ms = 0
    /\ response.total_time_ms = 0

C27_FailureDiscardsAndDiffers ==
    (Returned /\ StageFailure # "none") =>
        /\ Discarded
        /\ StageFailure \in {"validate", "execute"} =>
              /\ logArgs.sql # response.generated_sql
              /\ logArgs.ms # response.execution_time_ms

\* C27 (amended): every failure response holds {} for the extracted and the
\* normalized entities, None for the generated query and 0 for both times,
\* whatever the stages had computed.  After a validation or an execution
\* failure the logged generated text is the generated query, not the None of
\* the response; the logged time is 0 after a validation failure and the
\* measured time after an execution failure, so it differs from the 0 of the
\* response exactly when an execution failure took a millisecond or more.
C27_FailureDiscards ==
    (Returned /\ StageFailure # "none") =>
        /\ Discarded
        /\ StageFailure \in {"validate", "execute"} =>
              /\ logArgs.sql = sql
              /\ ~sql.isNone
              /\ logArgs.sql # response.generated_sql
        /\ StageFailure = "validate" => logArgs.ms = 0
        /\ StageFailure = "execute" => logArgs.ms = execution_time_ms
        /\ logArgs.ms # response.execution_time_ms <=>
              (StageFailure = "execute" /\ execution_time_ms > 0)

\* entities were extracted and normalized, a query was generated and
\* validated, and its execution failed after a millisecond
C27_Witness ==
    /\ Returned
    /\ StageFailure = "execute"
    /\ extracted["companies"] = {"Stripe"}
    /\ "companies" \in DOMAIN normalized
    /\ ~sql.isNone
    /\ execution_time_ms = 1
    /\ Discarded
    /\ logArgs.sql = sql
    /\ logArgs.ms = 1

\* ------------------------------------------------------------------------
\* C28: a call of process_query ends.  Once started it reaches its return
\* statement, with a response that is either the success or a failure
\* carrying one of the three messages, after at most MAX_RETRIES
\* generate_content calls; on the way it only moves forward through its
\* stages, staying in a stage only for another generation attempt with a
\* higher retry count.
\* ------------------------------------------------------------------------
PcRank(p) ==
    CASE p = "idle" -> 0
      [] p = "extract" -> 1
      [] p = "normalize" -> 2
      [] p = "generate" -> 3
      [] p = "validate" -> 4
      [] p = "execute" -> 5
      [] p = "log" -> 6
      [] p = "respond" -> 7
      [] p = "done" -> 8
      [] OTHER -> 9

OneTerminalState ==
    /\ Returned
    /\ ~escaped
    /\ Count(trace, "terminal") = 1
    /\ Last(trace) = "terminal"
    /\ attempts <= MAX_RETRIES
    /\ \/ response.success = TRUE /\ response.error_message = NULL
       \/ /\ response.success = FALSE
          /\ response.error_message \in {MSG_GENERATE, MSG_INVALID, MSG_EXECUTE}

C28_Terminates ==
    /\ (pc = "extract") ~> OneTerminalState
    /\ [](attempts <= MAX_RETRIES /\ pc # "raised")
    /\ [][/\ PcRank(pc') >= PcRank(pc)
          /\ pc' = pc => (pc = "generate" /\ retry_count' = retry_count + 1)]_vars

\* the call used all its generation attempts, the pool being exhausted from
\* the start, and returned the generation failure
C28_Witness ==
    /\ OneTerminalState
    /\ checkedOut = MAXCONN
    /\ attempts = MAX_RETRIES
    /\ response.error_message = MSG_GENERATE

\* ------------------------------------------------------------------------
\* C29: a log write shows up whole or not at all.  A query_results row is
\* visible only together with its search_queries row; a row written in a
\* transaction that was never committed is not visible, nor is any of its
\* linkage rows; and the row of a committed log call is visible with all
\* its linkage rows.
\* ------------------------------------------------------------------------
VisibleIds == {search_queries[i].id : i \in 1..Len(search_queries)}

C29_LogAtomic ==
    /\ \A i \in 1..Len(query_results) : query_results[i].query_id \in VisibleIds
    /\ \A id \in openTx : id \notin VisibleIds /\ LinkedTo(id) = <<>>
    /\ (pc \in {"respond", "done"} /\ logCommits = 1) =>
          /\ LoggedRow.id = query_seq
          /\ LinkedTo(query_seq) = Linkage(query_seq, logArgs)
    /\ (pc \in {"respond", "done"} /\ logCommits = 0) =>
          \A id \in 1..query_seq : id \in VisibleIds \/ LinkedTo(id) = <<>>

\* the log of a three-row result failed after the search_queries row was
\* written (at a linkage insert or at the commit): nothing of it is visible
C29_Witness ==
    /\ Returned
    /\ results = Some(<<ROW_M1, ROW_ANON, ROW_M2>>)
    /\ logCalls = 1
    /\ logCommits = 0
    /\ query_seq = 1
    /\ openTx = {1}
    /\ search_queries = <<>>
    /\ query_results = <<>>
    /\ response.success = TRUE

====
